---- MODULE Spec2Model ----
(***************************************************************************)
(* ng-three-model-cropper: the point-in-box predicate, the triangle        *)
(* pruning cropper (CheapCropper), the scene/transform engine              *)
(* (ModelCropEngine) and its Angular adapter (ModelCropperService,         *)
(* ModelCropperComponent).                                                 *)
(*                                                                         *)
(* Numbers are fixed-point: the integer n stands for n / Unit, so that the *)
(* 0.1 padding of the fitted crop box and the service's rounding to two    *)
(* decimals are exact.  Every coordinate that reaches the centroid         *)
(* division is a multiple of 3 plus an integer translation applied to all  *)
(* three vertices, so (a + b + c) / 3 is an exact integer and \div is the  *)
(* code's division.  A Matrix4 is restricted to the translations with a    *)
(* uniform integer scale, [s, t]: p |-> s * p + t; rotations are the zero  *)
(* rotation only.                                                          *)
(***************************************************************************)
EXTENDS Integers, Sequences, FiniteSets, TLC

VARIABLES
    probe,      \* SpecPoint: one call of isPointInCropBox
    scene,      \* SpecCrop: the Object3D tree handed to CheapCropper
    cropCall,   \* SpecCrop: the CheapCropper.applyCrop call and its result
    svc,        \* ModelCropperService: engine reference and signals
    engines,    \* ModelCropEngine instances, by order of construction
    loads,      \* loadModel calls and the position each has reached
    hist        \* the last operation performed and what it returned

vars == <<probe, scene, cropCall, svc, engines, loads, hist>>

pureVars == <<probe, scene, cropCall>>

lifeVars == <<svc, engines, loads, hist>>

(***************************************************************************)
(* Bounds                                                                  *)
(***************************************************************************)
MaxCoord == 1
MaxTris == 2
MaxSteps == 8

\* one world unit in the fixed-point representation
Unit == 1000

\* Number.NaN, which is also what undefined (a read past the end of a typed
\* array) becomes in arithmetic.  It is a number so far below every
\* coordinate that scalings, sums and thirds of it stay below every crop-box
\* bound, so the test x >= min is false for it, as every comparison with NaN
\* is in JS.
NaN == 0 - 99999999

\* A JS number k / 3 that is not whole is written Thirds + k; whole numbers
\* are themselves.  Counts stay far below Thirds \div 2.
Thirds == 1000000

IsWhole(x) == x < Thirds \div 2

InThirds(x) == IF IsWhole(x) THEN 3 * x ELSE x - Thirds

FromThirds(k) == IF k % 3 = 0 THEN k \div 3 ELSE Thirds + k

\* the JS expressions n / 3, a - b and a + b on such numbers
Divide3(n) == FromThirds(n)

Minus(a, b) == FromThirds(InThirds(a) - InThirds(b))

Plus(a, b) == FromThirds(InThirds(a) + InThirds(b))

(***************************************************************************)
(* core/types.ts                                                           *)
(***************************************************************************)
Vec3(x, y, z) == [x |-> x, y |-> y, z |-> z]

CropBoxConfig(minX, minY, minZ, maxX, maxY, maxZ) ==
    [minX |-> minX, minY |-> minY, minZ |-> minZ,
     maxX |-> maxX, maxY |-> maxY, maxZ |-> maxZ]

DEFAULT_CROP_BOX == CropBoxConfig(-Unit, -Unit, -Unit, Unit, Unit, Unit)

DEFAULT_MESH_TRANSFORM == [position |-> Vec3(0, 0, 0), rotation |-> Vec3(0, 0, 0)]

isPointInCropBox_Normalized(x, y, z, box) ==
    /\ x >= (IF box.minX <= box.maxX THEN box.minX ELSE box.maxX)
    /\ x <= (IF box.minX <= box.maxX THEN box.maxX ELSE box.minX)
    /\ y >= (IF box.minY <= box.maxY THEN box.minY ELSE box.maxY)
    /\ y <= (IF box.minY <= box.maxY THEN box.maxY ELSE box.minY)
    /\ z >= (IF box.minZ <= box.maxZ THEN box.minZ ELSE box.maxZ)
    /\ z <= (IF box.minZ <= box.maxZ THEN box.maxZ ELSE box.minZ)

isPointInCropBox_AxisSlip(x, y, z, box) ==
    /\ x >= box.minX
    /\ x <= box.maxX
    /\ y >= box.minY
    /\ y <= box.maxY
    /\ z >= box.minZ
    /\ z < box.maxZ

isPointInCropBox(x, y, z, box) ==
    /\ x >= box.minX
    /\ x <= box.maxX
    /\ y >= box.minY
    /\ y <= box.maxY
    /\ z >= box.minZ
    /\ z <= box.maxZ

(***************************************************************************)
(* three.js values the cropper reads and builds                            *)
(***************************************************************************)
Matrix4(s, t) == [s |-> s, t |-> t]

IdentityMatrix == Matrix4(1, Vec3(0, 0, 0))

\* Matrix4.multiplyMatrices(a, b): the map p |-> a(b(p))
multiplyMatrices(a, b) ==
    Matrix4(a.s * b.s,
            Vec3(a.s * b.t.x + a.t.x, a.s * b.t.y + a.t.y, a.s * b.t.z + a.t.z))

\* Vector3.applyMatrix4
applyMatrix4(v, m) ==
    Vec3(m.s * v.x + m.t.x, m.s * v.y + m.t.y, m.s * v.z + m.t.z)

BufferAttribute(array, itemSize) == [array |-> array, itemSize |-> itemSize]

\* BufferAttribute.count
AttrCount(attr) == Len(attr.array) \div attr.itemSize

\* array[k - 1] of a typed array: undefined past the end, and at the index
\* undefined itself
At(array, k) == IF k >= 1 /\ k <= Len(array) THEN array[k] ELSE NaN

\* index * itemSize + c, 1-based; undefined * itemSize is NaN
ItemAt(index, itemSize, c) == IF index = NaN THEN NaN ELSE index * itemSize + c

\* Vector3.fromBufferAttribute(attr, index); index is 0-based as in the code
fromBufferAttribute(attr, index) ==
    Vec3(At(attr.array, ItemAt(index, attr.itemSize, 1)),
         At(attr.array, ItemAt(index, attr.itemSize, 2)),
         At(attr.array, ItemAt(index, attr.itemSize, 3)))

NoAttributes == [n \in {} |-> BufferAttribute(<<>>, 1)]

\* geometry: gid 0 stands for "no geometry object"
BufferGeometry(gid, attributes, indexed, index) ==
    [gid |-> gid, attributes |-> attributes, indexed |-> indexed, index |-> index]

NoGeometry == BufferGeometry(0, NoAttributes, FALSE, <<>>)

hasAttribute(geometry, name) == name \in DOMAIN geometry.attributes

\* BufferGeometry.computeVertexNormals: creates (or overwrites) a 'normal'
\* channel of item size 3 with one item per position; the normal values
\* themselves are not represented (0 stands for each component)
computeVertexNormals(geometry) ==
    IF ~hasAttribute(geometry, "position") THEN geometry
    ELSE LET n == AttrCount(geometry.attributes["position"]) * 3
             normal == BufferAttribute([i \in 1..n |-> 0], 3)
         IN  [geometry EXCEPT !.attributes =
                 [a \in (DOMAIN geometry.attributes) \cup {"normal"} |->
                     IF a = "normal" THEN normal ELSE geometry.attributes[a]]]

(***************************************************************************)
(* Strings are sequences of one-character strings.                         *)
(***************************************************************************)
UpperCase == <<"A", "B", "C", "D", "E", "F", "G", "H", "I", "J", "K", "L", "M", "N", "O", "P", "Q", "R", "S", "T", "U", "V", "W", "X", "Y", "Z">>

LowerCase == <<"a", "b", "c", "d", "e", "f", "g", "h", "i", "j", "k", "l", "m", "n", "o", "p", "q", "r", "s", "t", "u", "v", "w", "x", "y", "z">>

toLowerCase(s) ==
    [i \in 1..Len(s) |->
       IF \E k \in 1..Len(UpperCase) : UpperCase[k] = s[i]
       THEN LowerCase[CHOOSE k \in 1..Len(UpperCase) : UpperCase[k] = s[i]]
       ELSE s[i]]

endsWith(s, suffix) ==
    /\ Len(s) >= Len(suffix)
    /\ SubSeq(s, Len(s) - Len(suffix) + 1, Len(s)) = suffix

startsWith(s, prefix) ==
    /\ Len(s) >= Len(prefix)
    /\ SubSeq(s, 1, Len(prefix)) = prefix

includes(s, part) ==
    \E i \in 1..(Len(s) - Len(part) + 1) : SubSeq(s, i, i + Len(part) - 1) = part

\* MUTANT: the extension is looked for anywhere in the url
getModelFileType_Includes(url) ==
    IF includes(toLowerCase(url), <<".", "g", "l", "b">>) THEN "glb"
    ELSE IF includes(toLowerCase(url), <<".", "g", "l", "t", "f">>) THEN "gltf"
    ELSE IF includes(toLowerCase(url), <<".", "f", "b", "x">>) THEN "fbx"
    ELSE "unknown"

\* core/types.ts: getModelFileType
getModelFileType(url) ==
    IF endsWith(toLowerCase(url), <<".", "g", "l", "b">>) THEN "glb"
    ELSE IF endsWith(toLowerCase(url), <<".", "g", "l", "t", "f">>) THEN "gltf"
    ELSE IF endsWith(toLowerCase(url), <<".", "f", "b", "x">>) THEN "fbx"
    ELSE "unknown"

(***************************************************************************)
(* ModelCropEngine: resolving a source to a file type                      *)
(***************************************************************************)
Whitespace == {" ", "\t", "\n", "\r"}

RECURSIVE trimStart(_)
trimStart(s) ==
    IF s # <<>> /\ Head(s) \in Whitespace THEN trimStart(Tail(s)) ELSE s

RECURSIVE trimEnd(_)
trimEnd(s) ==
    IF s # <<>> /\ s[Len(s)] \in Whitespace THEN trimEnd(SubSeq(s, 1, Len(s) - 1))
    ELSE s

trim(s) == trimEnd(trimStart(s))

\* Blob.slice(0, end) / Uint8Array.slice(0, end)
slice(s, end) == SubSeq(s, 1, IF Len(s) < end THEN Len(s) ELSE end)

unreliableMimeTypes ==
    { <<"t", "e", "x", "t", "/", "p", "l", "a", "i", "n">>,
      <<"a", "p", "p", "l", "i", "c", "a", "t", "i", "o", "n", "/", "o", "c", "t", "e", "t", "-", "s", "t", "r", "e", "a", "m">>,
      <<"b", "i", "n", "a", "r", "y", "/", "o", "c", "t", "e", "t", "-", "s", "t", "r", "e", "a", "m">> }

fbxMagic == <<"K", "a", "y", "d", "a", "r", "a", " ", "F", "B", "X", " ", "B", "i", "n", "a", "r", "y">>

\* detectFileTypeFromContent(blob); a blob that cannot be read gives unknown
detectFileTypeFromContent(content, readable) ==
    IF ~readable THEN "unknown"
    ELSE IF slice(slice(content, 64), 4) = <<"g", "l", "T", "F">> THEN "glb"
    ELSE IF slice(slice(content, 64), Len(fbxMagic)) = fbxMagic THEN "fbx"
    ELSE IF startsWith(trim(slice(slice(content, 64), 32)), <<"{">>) THEN "gltf"
    ELSE "unknown"

\* inferFileType(filename?, mimeType?, blob); an argument left out, like an
\* empty string, is the empty sequence
inferFileType(filename, mimeType, content, readable) ==
    IF filename # <<>> /\ getModelFileType(filename) # "unknown"
    THEN getModelFileType(filename)
    ELSE IF /\ mimeType # <<>>
            /\ toLowerCase(mimeType) \notin unreliableMimeTypes
            /\ includes(toLowerCase(mimeType), <<"f", "b", "x">>)
    THEN "fbx"
    ELSE IF /\ mimeType # <<>>
            /\ toLowerCase(mimeType) \notin unreliableMimeTypes
            /\ \/ includes(toLowerCase(mimeType), <<"g", "l", "t", "f">>)
               \/ includes(toLowerCase(mimeType), <<"g", "l", "b">>)
    THEN "glb"
    ELSE detectFileTypeFromContent(content, readable)

\* the fileType resolveModelSource returns: a plain URL goes by its text, a
\* File by name, type and content, a Blob or a blob: URL by type and content
resolveModelSource(src) ==
    IF src.kind = "url" THEN getModelFileType(src.name)
    ELSE IF src.kind = "file"
    THEN inferFileType(src.name, src.type, src.content, src.readable)
    ELSE inferFileType(<<>>, src.type, src.content, src.readable)

(***************************************************************************)
(* core/cheap-cropper.ts: CheapCropper                                     *)
(***************************************************************************)
OptionKeys == {"strategy", "recomputeNormals"}

DEFAULT_CROP_OPTIONS ==
    [k \in OptionKeys |-> IF k = "strategy" THEN "centroid" ELSE "yes"]

\* { ...DEFAULT_CROP_OPTIONS, ...options }
MergeOptions(options) ==
    [k \in OptionKeys |-> IF k \in DOMAIN options THEN options[k]
                          ELSE DEFAULT_CROP_OPTIONS[k]]

getWorldPosition_Local(positionAttr, index, worldMatrix) ==
    fromBufferAttribute(positionAttr, index)

getWorldPosition(positionAttr, index, worldMatrix) ==
    applyMatrix4(fromBufferAttribute(positionAttr, index), worldMatrix)

testTriangle_AnyAsAll(positionAttr, i0, i1, i2, worldMatrix, cropBox, strategy) ==
    LET v0 == getWorldPosition(positionAttr, i0, worldMatrix)
        v1 == getWorldPosition(positionAttr, i1, worldMatrix)
        v2 == getWorldPosition(positionAttr, i2, worldMatrix)
    IN  CASE strategy = "centroid" ->
               isPointInCropBox((v0.x + v1.x + v2.x) \div 3,
                                (v0.y + v1.y + v2.y) \div 3,
                                (v0.z + v1.z + v2.z) \div 3, cropBox)
          [] strategy = "all-vertices" ->
               /\ isPointInCropBox(v0.x, v0.y, v0.z, cropBox)
               /\ isPointInCropBox(v1.x, v1.y, v1.z, cropBox)
               /\ isPointInCropBox(v2.x, v2.y, v2.z, cropBox)
          [] strategy = "any-vertex" ->
               \/ isPointInCropBox(v0.x, v0.y, v0.z, cropBox)
               \/ /\ isPointInCropBox(v1.x, v1.y, v1.z, cropBox)
                  /\ isPointInCropBox(v2.x, v2.y, v2.z, cropBox)
          [] OTHER -> TRUE

\* MUTANT: the all-vertices rule looks at the first two vertices only
testTriangle_AllOfTwo(positionAttr, i0, i1, i2, worldMatrix, cropBox, strategy) ==
    LET v0 == getWorldPosition(positionAttr, i0, worldMatrix)
        v1 == getWorldPosition(positionAttr, i1, worldMatrix)
        v2 == getWorldPosition(positionAttr, i2, worldMatrix)
    IN  CASE strategy = "centroid" ->
               isPointInCropBox((v0.x + v1.x + v2.x) \div 3,
                                (v0.y + v1.y + v2.y) \div 3,
                                (v0.z + v1.z + v2.z) \div 3, cropBox)
          [] strategy = "all-vertices" ->
               /\ isPointInCropBox(v0.x, v0.y, v0.z, cropBox)
               /\ isPointInCropBox(v1.x, v1.y, v1.z, cropBox)
          [] strategy = "any-vertex" ->
               \/ isPointInCropBox(v0.x, v0.y, v0.z, cropBox)
               \/ isPointInCropBox(v1.x, v1.y, v1.z, cropBox)
               \/ isPointInCropBox(v2.x, v2.y, v2.z, cropBox)
          [] OTHER -> TRUE

testTriangle(positionAttr, i0, i1, i2, worldMatrix, cropBox, strategy) ==
    LET v0 == getWorldPosition(positionAttr, i0, worldMatrix)
        v1 == getWorldPosition(positionAttr, i1, worldMatrix)
        v2 == getWorldPosition(positionAttr, i2, worldMatrix)
    IN  CASE strategy = "centroid" ->
               isPointInCropBox((v0.x + v1.x + v2.x) \div 3,
                                (v0.y + v1.y + v2.y) \div 3,
                                (v0.z + v1.z + v2.z) \div 3, cropBox)
          [] strategy = "all-vertices" ->
               /\ isPointInCropBox(v0.x, v0.y, v0.z, cropBox)
               /\ isPointInCropBox(v1.x, v1.y, v1.z, cropBox)
               /\ isPointInCropBox(v2.x, v2.y, v2.z, cropBox)
          [] strategy = "any-vertex" ->
               \/ isPointInCropBox(v0.x, v0.y, v0.z, cropBox)
               \/ isPointInCropBox(v1.x, v1.y, v1.z, cropBox)
               \/ isPointInCropBox(v2.x, v2.y, v2.z, cropBox)
          [] OTHER -> TRUE

\* first-encounter order of the values of a sequence (the keys of vertexMap)
RECURSIVE FirstSeen(_)
FirstSeen(s) ==
    IF s = <<>> THEN <<>>
    ELSE LET init == FirstSeen(SubSeq(s, 1, Len(s) - 1))
             last == s[Len(s)]
         IN  IF \E i \in 1..Len(init) : init[i] = last THEN init
             ELSE Append(init, last)

PositionIn(seq, v) == CHOOSE i \in 1..Len(seq) : seq[i] = v

\* MUTANT: only the position channel is copied to the rebuilt geometry
buildNewGeometry_PositionOnly(originalGeometry, keptTriangleIndices, wasIndexed, newGid) ==
    LET attributeNames == {"position"}
    IN  IF wasIndexed
        THEN LET order == FirstSeen(keptTriangleIndices)
                 newIndices == [n \in 1..Len(keptTriangleIndices) |->
                                  PositionIn(order, keptTriangleIndices[n]) - 1]
                 copy(oldAttr) ==
                     BufferAttribute(
                       [n \in 1..(Len(order) * oldAttr.itemSize) |->
                          oldAttr.array[order[((n - 1) \div oldAttr.itemSize) + 1]
                                          * oldAttr.itemSize
                                        + ((n - 1) % oldAttr.itemSize) + 1]],
                       oldAttr.itemSize)
             IN  BufferGeometry(newGid,
                   [a \in attributeNames |-> copy(originalGeometry.attributes[a])],
                   TRUE, newIndices)
        ELSE LET copy(oldAttr) ==
                     BufferAttribute(
                       [n \in 1..(Len(keptTriangleIndices) * oldAttr.itemSize) |->
                          oldAttr.array[
                             keptTriangleIndices[((n - 1) \div oldAttr.itemSize) + 1]
                               * oldAttr.itemSize
                             + ((n - 1) % oldAttr.itemSize) + 1]],
                       oldAttr.itemSize)
             IN  BufferGeometry(newGid,
                   [a \in attributeNames |-> copy(originalGeometry.attributes[a])],
                   FALSE, <<>>)

\* the values of a sequence in ascending order, each once
Ascending(s) ==
    LET S == { s[n] : n \in 1..Len(s) }
    IN  [n \in 1..Cardinality(S) |->
           CHOOSE x \in S : Cardinality({ y \in S : y < x }) = n - 1]

\* MUTANT: the indexed rebuild numbers the referenced vertices in ascending
\* order of their old index
buildNewGeometry_Ascending(originalGeometry, keptTriangleIndices, wasIndexed, newGid) ==
    LET attributeNames == DOMAIN originalGeometry.attributes
    IN  IF wasIndexed
        THEN LET order == Ascending(keptTriangleIndices)
                 newIndices == [n \in 1..Len(keptTriangleIndices) |->
                                  PositionIn(order, keptTriangleIndices[n]) - 1]
                 copy(oldAttr) ==
                     BufferAttribute(
                       [n \in 1..(Len(order) * oldAttr.itemSize) |->
                          At(oldAttr.array,
                             ItemAt(order[((n - 1) \div oldAttr.itemSize) + 1],
                                    oldAttr.itemSize,
                                    ((n - 1) % oldAttr.itemSize) + 1))],
                       oldAttr.itemSize)
             IN  BufferGeometry(newGid,
                   [a \in attributeNames |-> copy(originalGeometry.attributes[a])],
                   TRUE, newIndices)
        ELSE LET copy(oldAttr) ==
                     BufferAttribute(
                       [n \in 1..(Len(keptTriangleIndices) * oldAttr.itemSize) |->
                          At(oldAttr.array,
                             ItemAt(keptTriangleIndices[((n - 1) \div oldAttr.itemSize) + 1],
                                    oldAttr.itemSize,
                                    ((n - 1) % oldAttr.itemSize) + 1))],
                       oldAttr.itemSize)
             IN  BufferGeometry(newGid,
                   [a \in attributeNames |-> copy(originalGeometry.attributes[a])],
                   FALSE, <<>>)

\* MUTANT: the non-indexed rebuild copies the first kept triangle's values
\* for every kept triangle
buildNewGeometry_FirstTriangle(originalGeometry, keptTriangleIndices, wasIndexed, newGid) ==
    LET attributeNames == DOMAIN originalGeometry.attributes
    IN  IF wasIndexed
        THEN LET order == FirstSeen(keptTriangleIndices)
                 newIndices == [n \in 1..Len(keptTriangleIndices) |->
                                  PositionIn(order, keptTriangleIndices[n]) - 1]
                 copy(oldAttr) ==
                     BufferAttribute(
                       [n \in 1..(Len(order) * oldAttr.itemSize) |->
                          At(oldAttr.array,
                             ItemAt(order[((n - 1) \div oldAttr.itemSize) + 1],
                                    oldAttr.itemSize,
                                    ((n - 1) % oldAttr.itemSize) + 1))],
                       oldAttr.itemSize)
             IN  BufferGeometry(newGid,
                   [a \in attributeNames |-> copy(originalGeometry.attributes[a])],
                   TRUE, newIndices)
        ELSE LET copy(oldAttr) ==
                     BufferAttribute(
                       [n \in 1..(Len(keptTriangleIndices) * oldAttr.itemSize) |->
                          At(oldAttr.array,
                             ItemAt(keptTriangleIndices[(((n - 1) \div oldAttr.itemSize) % 3) + 1],
                                    oldAttr.itemSize,
                                    ((n - 1) % oldAttr.itemSize) + 1))],
                       oldAttr.itemSize)
             IN  BufferGeometry(newGid,
                   [a \in attributeNames |-> copy(originalGeometry.attributes[a])],
                   FALSE, <<>>)

buildNewGeometry(originalGeometry, keptTriangleIndices, wasIndexed, newGid) ==
    LET attributeNames == DOMAIN originalGeometry.attributes
    IN  IF wasIndexed
        THEN LET order == FirstSeen(keptTriangleIndices)
                 newIndices == [n \in 1..Len(keptTriangleIndices) |->
                                  PositionIn(order, keptTriangleIndices[n]) - 1]
                 copy(oldAttr) ==
                     BufferAttribute(
                       [n \in 1..(Len(order) * oldAttr.itemSize) |->
                          At(oldAttr.array,
                             ItemAt(order[((n - 1) \div oldAttr.itemSize) + 1],
                                    oldAttr.itemSize,
                                    ((n - 1) % oldAttr.itemSize) + 1))],
                       oldAttr.itemSize)
             IN  BufferGeometry(newGid,
                   [a \in attributeNames |-> copy(originalGeometry.attributes[a])],
                   TRUE, newIndices)
        ELSE LET copy(oldAttr) ==
                     BufferAttribute(
                       [n \in 1..(Len(keptTriangleIndices) * oldAttr.itemSize) |->
                          At(oldAttr.array,
                             ItemAt(keptTriangleIndices[((n - 1) \div oldAttr.itemSize) + 1],
                                    oldAttr.itemSize,
                                    ((n - 1) % oldAttr.itemSize) + 1))],
                       oldAttr.itemSize)
             IN  BufferGeometry(newGid,
                   [a \in attributeNames |-> copy(originalGeometry.attributes[a])],
                   FALSE, <<>>)

\* the triangle loop of cropGeometry: the kept vertex references, three per
\* kept triangle
keptTriangles(geometry, worldMatrix, cropBox, strategy) ==
    LET positionAttr == geometry.attributes["position"]
        isIndexed == geometry.indexed
        indices == geometry.index
        vertexCount == AttrCount(positionAttr)
        \* the number of i = 0, 1, ... with i < triangleCount, where
        \* triangleCount is indices.length / 3 or vertexCount / 3
        triangleCount == IF isIndexed THEN (Len(indices) + 2) \div 3
                         ELSE (vertexCount + 2) \div 3
        loop[n \in 0..triangleCount] ==
            IF n = 0 THEN <<>>
            ELSE LET i == n - 1
                     i0 == IF isIndexed THEN At(indices, i * 3 + 1) ELSE i * 3
                     i1 == IF isIndexed THEN At(indices, i * 3 + 2) ELSE i * 3 + 1
                     i2 == IF isIndexed THEN At(indices, i * 3 + 3) ELSE i * 3 + 2
                 IN  IF testTriangle(positionAttr, i0, i1, i2, worldMatrix,
                                     cropBox, strategy)
                     THEN loop[n - 1] \o <<i0, i1, i2>>
                     ELSE loop[n - 1]
    IN  loop[triangleCount]

\* MUTANT: the triangle count is taken from the position channel even when
\* the geometry is indexed
TriangleCount_FromPositions(geometry) ==
    AttrCount(geometry.attributes["position"]) \div 3

TriangleCount(geometry) ==
    IF geometry.indexed THEN Divide3(Len(geometry.index))
    ELSE Divide3(AttrCount(geometry.attributes["position"]))

\* MUTANT: rebuilds the geometry even when no triangle was removed
finishCrop_AlwaysRebuild(geometry, kept, options, newGid) ==
    [isNull |-> FALSE,
     geometry |-> IF options["recomputeNormals"] = "yes"
                  THEN computeVertexNormals(
                         buildNewGeometry(geometry, kept, geometry.indexed, newGid))
                  ELSE buildNewGeometry(geometry, kept, geometry.indexed, newGid),
     trianglesRemoved |-> TriangleCount(geometry) - (Len(kept) \div 3),
     trianglesKept |-> Len(kept) \div 3]

\* the rest of cropGeometry once the triangle loop has produced kept
finishCrop(geometry, kept, options, newGid) ==
    IF Minus(TriangleCount(geometry), Len(kept) \div 3) = 0
    THEN [isNull |-> FALSE, geometry |-> geometry,
          trianglesRemoved |-> 0, trianglesKept |-> Len(kept) \div 3]
    ELSE [isNull |-> FALSE,
          geometry |-> IF options["recomputeNormals"] = "yes"
                       THEN computeVertexNormals(
                              buildNewGeometry(geometry, kept, geometry.indexed, newGid))
                       ELSE buildNewGeometry(geometry, kept, geometry.indexed, newGid),
          trianglesRemoved |-> Minus(TriangleCount(geometry), Len(kept) \div 3),
          trianglesKept |-> Len(kept) \div 3]

\* returns null (isNull) for a geometry without a position attribute
cropGeometry(geometry, worldMatrix, cropBox, options, newGid) ==
    IF ~hasAttribute(geometry, "position")
    THEN [isNull |-> TRUE, geometry |-> geometry,
          trianglesRemoved |-> 0, trianglesKept |-> 0]
    ELSE finishCrop(geometry,
                    keptTriangles(geometry, worldMatrix, cropBox, options["strategy"]),
                    options, newGid)

(***************************************************************************)
(* Object3D trees: a sequence of nodes, every parent before its children,  *)
(* parent 0 for the root                                                   *)
(***************************************************************************)
Object3D(type, parent, position, scale, geometry) ==
    [type |-> type, parent |-> parent, position |-> position,
     rotation |-> Vec3(0, 0, 0), scale |-> scale,
     matrixWorld |-> IdentityMatrix, geometry |-> geometry]

\* Object3D.updateMatrix: compose(position, quaternion, scale)
LocalMatrix(node) == Matrix4(node.scale, node.position)

\* Object3D.updateMatrixWorld(true) called on the root of the tree
updateMatrixWorld(tree) ==
    LET mw[i \in 1..Len(tree)] ==
            IF tree[i].parent = 0 THEN LocalMatrix(tree[i])
            ELSE multiplyMatrices(mw[tree[i].parent], LocalMatrix(tree[i]))
    IN  [i \in 1..Len(tree) |-> [tree[i] EXCEPT !.matrixWorld = mw[i]]]

\* Object3D.traverse: the node, then each child's subtree, children in order
RECURSIVE TraverseFrom(_, _)
RECURSIVE TraverseChildren(_, _, _)
TraverseFrom(tree, i) == <<i>> \o TraverseChildren(tree, i, i + 1)
TraverseChildren(tree, i, j) ==
    IF j > Len(tree) THEN <<>>
    ELSE (IF tree[j].parent = i THEN TraverseFrom(tree, j) ELSE <<>>)
         \o TraverseChildren(tree, i, j + 1)

traverse(tree) == IF tree = <<>> THEN <<>> ELSE TraverseFrom(tree, 1)

CropResult(success, trianglesRemoved, trianglesKept, meshesProcessed) ==
    [success |-> success, trianglesRemoved |-> trianglesRemoved,
     trianglesKept |-> trianglesKept, meshesProcessed |-> meshesProcessed]

\* MUTANT: a mesh for which cropGeometry returned null is counted as processed
takeResult_CountsSkipped(acc, i, result) ==
    IF result.isNull THEN [acc EXCEPT !.processed = acc.processed + 1]
    ELSE [tree |-> [acc.tree EXCEPT ![i].geometry = result.geometry],
          removed |-> acc.removed + result.trianglesRemoved,
          kept |-> acc.kept + result.trianglesKept,
          processed |-> acc.processed + 1,
          disposed |-> acc.disposed \cup {acc.tree[i].geometry.gid},
          nextGid |-> IF result.geometry.gid = acc.nextGid
                      THEN acc.nextGid + 1 ELSE acc.nextGid]

\* the body of the traverse callback once cropGeometry has returned: swap
\* the geometry in, add to the totals, dispose the geometry that was there
takeResult(acc, i, result) ==
    IF result.isNull THEN acc
    ELSE [tree |-> [acc.tree EXCEPT ![i].geometry = result.geometry],
          removed |-> Plus(acc.removed, result.trianglesRemoved),
          kept |-> acc.kept + result.trianglesKept,
          processed |-> acc.processed + 1,
          disposed |-> acc.disposed \cup {acc.tree[i].geometry.gid},
          nextGid |-> IF result.geometry.gid = acc.nextGid
                      THEN acc.nextGid + 1 ELSE acc.nextGid]

\* the traverse callback on node i
visitObject(acc, i, cropBox, opts) ==
    IF acc.tree[i].type = "Mesh" /\ acc.tree[i].geometry.gid # 0
    THEN takeResult(acc, i,
                    cropGeometry(acc.tree[i].geometry, acc.tree[i].matrixWorld,
                                 cropBox, opts, acc.nextGid))
    ELSE acc

RECURSIVE visitAll(_, _, _, _)
visitAll(acc, order, cropBox, opts) ==
    IF order = <<>> THEN acc
    ELSE visitAll(visitObject(acc, Head(order), cropBox, opts), Tail(order),
                  cropBox, opts)

cropOutcome(final) ==
    [root |-> final.tree,
     result |-> CropResult(TRUE, final.removed, final.kept, final.processed),
     disposed |-> final.disposed,
     nextGid |-> final.nextGid]

\* CheapCropper.applyCrop(root, cropBox, options).  Returns the mutated
\* tree, the CropResult, the gids of the geometries it disposed and the next
\* unused gid.
CheapCropper_applyCrop(root, cropBox, options, nextGid) ==
    cropOutcome(
      visitAll([tree |-> root, removed |-> 0, kept |-> 0, processed |-> 0,
                disposed |-> {}, nextGid |-> nextGid],
               traverse(root), cropBox, MergeOptions(options)))

(***************************************************************************)
(* ModelCropEngine (core/cheap-cropper.ts, from line 346).  The camera,    *)
(* the controls and the renderer are left out; the visualisation objects   *)
(* (crop-box mesh and helper, grid helper, view helper) are the record     *)
(* visual.                                                                 *)
(***************************************************************************)
Null == <<>>

Some(x) == <<x>>

\* loadedModel = null
NoModel == [id |-> 0, tree |-> <<>>, disposedGeometries |-> {}]

\* '#00ff00', the colour of the crop box until one is set
DefaultColor == <<"#", "0", "0", "f", "f", "0", "0">>

\* the visualisation fields of a ModelCropEngine after its constructor:
\* gridHelper and viewHelper say whether the object exists, cropBoxMesh is
\* the box mesh and its wireframe helper, built together
NewVisual ==
    [boxVisible |-> TRUE, cropBoxColor |-> DefaultColor,
     gridVisible |-> FALSE, gridHelper |-> FALSE,
     viewHelperVisible |-> FALSE, viewHelper |-> FALSE,
     cropBoxMesh |-> Null]

\* the fields of a ModelCropEngine after its constructor
NewEngine ==
    [isDisposed |-> FALSE, loadingState |-> "idle",
     loadedModel |-> NoModel, sceneModels |-> {}, disposedModels |-> {},
     currentCropBox |-> DEFAULT_CROP_BOX,
     currentTransform |-> DEFAULT_MESH_TRANSFORM,
     visual |-> NewVisual]

Engine_setLoadingState(e, state) == [e EXCEPT !.loadingState = state]

\* the old box mesh and helper are replaced by ones built from the current
\* crop box, colour and visibility
Engine_updateCropBoxVisualization(e) ==
    [e EXCEPT !.visual.cropBoxMesh =
                 Some([box |-> e.currentCropBox,
                       color |-> e.visual.cropBoxColor,
                       visible |-> e.visual.boxVisible])]

Engine_updateCropBox(e, box) ==
    Engine_updateCropBoxVisualization([e EXCEPT !.currentCropBox = box])

Engine_setBoxVisibility(e, visible) ==
    [e EXCEPT !.visual.boxVisible = visible,
              !.visual.cropBoxMesh =
                 IF @ = Null THEN @ ELSE Some([@[1] EXCEPT !.visible = visible])]

\* a colour change that also puts the crop box back to its default
Engine_setCropBoxColor_MovesBox(e, color) ==
    Engine_updateCropBox([e EXCEPT !.visual.cropBoxColor = color],
                         DEFAULT_CROP_BOX)

\* the colour is kept as the text it was given as
Engine_setCropBoxColor(e, color) ==
    Engine_updateCropBoxVisualization([e EXCEPT !.visual.cropBoxColor = color])

\* the grid helper is created, and added to the scene, the first time it is
\* shown
Engine_setGridVisibility(e, visible) ==
    [e EXCEPT !.visual.gridVisible = visible,
              !.visual.gridHelper = @ \/ visible]

Engine_setViewHelperVisibility(e, visible) ==
    [e EXCEPT !.visual.viewHelperVisible = visible,
              !.visual.viewHelper = @ \/ visible]

\* loadedModel.position.set(...); loadedModel.rotation.set(...)
setRootTransform(tree, transform) ==
    [tree EXCEPT ![1].position = transform.position,
                 ![1].rotation = transform.rotation]

Engine_applyTransform(e) ==
    IF e.loadedModel.id = 0 THEN e
    ELSE [e EXCEPT !.loadedModel.tree = setRootTransform(@, e.currentTransform)]

Engine_setMeshTransform(e, transform) ==
    Engine_applyTransform([e EXCEPT !.currentTransform = transform])

MinOf(S) == CHOOSE m \in S : \A x \in S : m <= x

MaxOf(S) == CHOOSE m \in S : \A x \in S : m >= x

\* the world-space positions Box3.expandByObject visits: every item of the
\* position attribute of every object that has a geometry
WorldPoints(tree) ==
    UNION { { applyMatrix4(fromBufferAttribute(
                               tree[i].geometry.attributes["position"], k),
                           tree[i].matrixWorld) :
              k \in 0..(AttrCount(tree[i].geometry.attributes["position"]) - 1) } :
            i \in { j \in 1..Len(tree) :
                      hasAttribute(tree[j].geometry, "position") } }

Box3(points) ==
    [min |-> Vec3(MinOf({ p.x : p \in points }), MinOf({ p.y : p \in points }),
                  MinOf({ p.z : p \in points })),
     max |-> Vec3(MaxOf({ p.x : p \in points }), MaxOf({ p.y : p \in points }),
                  MaxOf({ p.z : p \in points }))]

\* new THREE.Box3().setFromObject(model): refreshes the world matrices of the
\* model and bounds the world-space vertices
Box3_setFromObject(tree) == Box3(WorldPoints(updateMatrixWorld(tree)))

padding == Unit \div 10

paddedBox(box) ==
    CropBoxConfig(box.min.x - padding, box.min.y - padding, box.min.z - padding,
                  box.max.x + padding, box.max.y + padding, box.max.z + padding)

Engine_fitModelInView(e) ==
    [e EXCEPT !.loadedModel.tree = updateMatrixWorld(@),
              !.currentCropBox = paddedBox(Box3_setFromObject(e.loadedModel.tree))]

\* loadModel, the "remove existing model" block at the head of the try
Engine_removeExisting(e) ==
    IF e.loadedModel.id = 0 THEN e
    ELSE [e EXCEPT !.sceneModels = @ \ {e.loadedModel.id},
                   !.disposedModels = @ \cup {e.loadedModel.id},
                   !.loadedModel = NoModel]

\* MUTANT: the stored transform is not applied to the model that loads
Engine_installModel_AsDelivered(e, id, tree) ==
    Engine_setLoadingState(
      Engine_updateCropBoxVisualization(
        Engine_fitModelInView(
          [e EXCEPT !.loadedModel = [id |-> id, tree |-> tree,
                                     disposedGeometries |-> {}],
                    !.sceneModels = @ \cup {id}])),
      "loaded")

\* loadModel after the parser resolved: install, fit, apply the transform,
\* report "loaded"
Engine_installModel(e, id, tree) ==
    Engine_setLoadingState(
      Engine_updateCropBoxVisualization(
        Engine_applyTransform(
          Engine_fitModelInView(
            [e EXCEPT !.loadedModel = [id |-> id, tree |-> tree,
                                       disposedGeometries |-> {}],
                      !.sceneModels = @ \cup {id}]))),
      "loaded")

ErrorMessage(error, fallback) ==
    IF error.isError THEN error.message ELSE fallback

Engine_loadModel_catch_Silent(e, error) ==
    [engine |-> Engine_setLoadingState(e, "error"), onError |-> Null,
     rethrown |-> FALSE]

\* loadModel, the catch block
Engine_loadModel_catch(e, error) ==
    [engine |-> Engine_setLoadingState(e, "error"),
     onError |-> Some(ErrorMessage(error, "Unknown error loading model")),
     rethrown |-> TRUE]

\* a geometry id no geometry of the model has had
FreshGid(model) ==
    1 + MaxOf({0} \cup model.disposedGeometries
                  \cup { model.tree[i].geometry.gid : i \in 1..Len(model.tree) })

cropInstalled(e, r) ==
    [engine |-> [e EXCEPT !.loadedModel.tree = r.root,
                          !.loadedModel.disposedGeometries = @ \cup r.disposed],
     result |-> r.result]

\* MUTANT: the crop is handed the world matrices as they are
Engine_applyCheapCrop_Stale(e, options) ==
    IF e.loadedModel.id = 0
    THEN [engine |-> e, result |-> CropResult(FALSE, 0, 0, 0)]
    ELSE cropInstalled(e,
           CheapCropper_applyCrop(e.loadedModel.tree, e.currentCropBox, options,
                                  FreshGid(e.loadedModel)))

\* applyCheapCrop: loadedModel.updateMatrixWorld(true), then the cropper
Engine_applyCheapCrop(e, options) ==
    IF e.loadedModel.id = 0
    THEN [engine |-> e, result |-> CropResult(FALSE, 0, 0, 0)]
    ELSE cropInstalled(e,
           CheapCropper_applyCrop(updateMatrixWorld(e.loadedModel.tree),
                                  e.currentCropBox, options,
                                  FreshGid(e.loadedModel)))

\* exportToGlb: the exporter is handed the loaded model, and answers through
\* its success or its error callback
exporterAnswer(e, exporterSucceeds) ==
    IF exporterSucceeds
    THEN [engine |-> e, exported |-> TRUE, settled |-> "resolved", message |-> ""]
    ELSE [engine |-> e, exported |-> TRUE, settled |-> "rejected",
          message |-> "Export failed"]

Engine_exportToGlb_Unchecked(e, exporterSucceeds) ==
    exporterAnswer(e, exporterSucceeds)

Engine_exportToGlb_Reporting(e, exporterSucceeds) ==
    IF e.loadedModel.id # 0 /\ exporterSucceeds
    THEN exporterAnswer(e, exporterSucceeds)
    ELSE [engine |-> Engine_setLoadingState(e, "error"), exported |-> FALSE,
          settled |-> "rejected", message |-> "No model loaded to export"]

Engine_exportToGlb(e, exporterSucceeds) ==
    IF e.loadedModel.id = 0
    THEN [engine |-> e, exported |-> FALSE, settled |-> "rejected",
          message |-> "No model loaded to export"]
    ELSE exporterAnswer(e, exporterSucceeds)

Engine_dispose(e) ==
    [Engine_removeExisting(e) EXCEPT !.isDisposed = TRUE, !.sceneModels = {},
                                     !.visual.cropBoxMesh = Null,
                                     !.visual.gridHelper = FALSE,
                                     !.visual.viewHelper = FALSE]

\* MUTANT: no loader for a format that is not glb, gltf or fbx
LoaderFor_KnownOnly(fileType) ==
    IF fileType = "fbx" THEN "FBXLoader"
    ELSE IF fileType \in {"glb", "gltf"} THEN "GLTFLoader" ELSE "none"

\* the format switch of loadModel: FBXLoader for fbx, GLTFLoader for glb,
\* gltf and, as the default, anything else
LoaderFor(fileType) == IF fileType = "fbx" THEN "FBXLoader" ELSE "GLTFLoader"

(***************************************************************************)
(* ModelCropperService (ng/model-cropper.service.ts)                       *)
(***************************************************************************)
NewService ==
    [engine |-> 0, loadingState |-> "idle", errorMessage |-> Null,
     cropBox |-> DEFAULT_CROP_BOX, meshTransform |-> DEFAULT_MESH_TRANSFORM,
     lastCropResult |-> Null, cropIsValid |-> FALSE,
     boxVisible |-> TRUE, cropBoxColor |-> DefaultColor,
     gridVisible |-> FALSE, viewHelperVisible |-> FALSE]

canApplyCrop(s) == s.loadingState = "loaded"

canExport(s) == s.loadingState = "loaded" /\ s.cropIsValid

\* Math.round(value * 100) / 100; Math.round rounds a half towards +infinity
roundNumber(value) ==
    ((200 * value + Unit) \div (2 * Unit)) * (Unit \div 100)

roundCropBox(box) ==
    CropBoxConfig(roundNumber(box.minX), roundNumber(box.minY),
                  roundNumber(box.minZ), roundNumber(box.maxX),
                  roundNumber(box.maxY), roundNumber(box.maxZ))

roundVec(v) == Vec3(roundNumber(v.x), roundNumber(v.y), roundNumber(v.z))

roundTransform(transform) ==
    [position |-> roundVec(transform.position),
     rotation |-> roundVec(transform.rotation)]

\* setInitialValues(cropBox?, transform?): an argument left out is Null
Service_setInitialValues(s, cropBox, transform) ==
    [s EXCEPT !.cropBox = IF cropBox = Null THEN @ ELSE roundCropBox(cropBox[1]),
              !.meshTransform = IF transform = Null THEN @
                                ELSE roundTransform(transform[1])]

\* the callbacks initViewport hands to the engine
onLoadingStateChange(s, state) == [s EXCEPT !.loadingState = state]

onError(s, message) ==
    IF message = Null THEN s ELSE [s EXCEPT !.errorMessage = message]

HexDigits ==
    {"0", "1", "2", "3", "4", "5", "6", "7", "8", "9",
     "a", "b", "c", "d", "e", "f", "A", "B", "C", "D", "E", "F"}

\* normalizeColor: '#' is put in front if missing; anything but '#' and 3 or
\* 6 hex digits becomes the default colour
normalizeColor(color) ==
    LET trimmed == trim(color)
        hex == IF startsWith(trimmed, <<"#">>) THEN trimmed ELSE <<"#">> \o trimmed
        isValid == /\ Len(hex) \in {4, 7}
                   /\ \A i \in 2..Len(hex) : hex[i] \in HexDigits
    IN  IF isValid THEN hex ELSE DefaultColor

Service_toggleBoxVisibility(s, visible) == [s EXCEPT !.boxVisible = visible]

Service_setCropBoxColor(s, color) ==
    [s EXCEPT !.cropBoxColor = normalizeColor(color)]

Service_toggleGridVisibility(s, visible) == [s EXCEPT !.gridVisible = visible]

Service_toggleViewHelperVisibility(s, visible) ==
    [s EXCEPT !.viewHelperVisible = visible]

Service_updateCropBox(s, rounded) ==
    [s EXCEPT !.cropBox = rounded, !.cropIsValid = FALSE]

Service_updateTransform_KeepsValidity(s, rounded) ==
    [s EXCEPT !.meshTransform = rounded]

Service_updateTransform(s, rounded) ==
    [s EXCEPT !.meshTransform = rounded, !.cropIsValid = FALSE]

Service_applyCrop(s, result) ==
    [s EXCEPT !.lastCropResult = Some(result),
              !.cropIsValid = IF result.success THEN TRUE ELSE @]

\* loadModel after the await: the crop box is read from the engine the
\* service holds by then; with no engine the read throws a TypeError
Service_loadModel_resumed(s, es) ==
    IF s.engine = 0
    THEN [s EXCEPT !.errorMessage =
                     Some("Cannot read properties of null (reading 'getCropBox')")]
    ELSE [s EXCEPT !.cropBox = roundCropBox(es[s.engine].currentCropBox)]

Service_loadModel_catch(s, error) ==
    [s EXCEPT !.errorMessage = Some(ErrorMessage(error, "Failed to load model"))]

(***************************************************************************)
(* loadModel calls in flight, and the record of the last operation         *)
(***************************************************************************)
PlainUrl(fileType) == [kind |-> "url", fileType |-> fileType]

BlobUrl(fileType) == [kind |-> "blobUrl", fileType |-> fileType]

\* a loadModel(src) call on engine n that has reached its first await
NewLoad(n, src) ==
    [pc |-> "resolving", engine |-> n, src |-> src,
     objectUrl |-> "none", loader |-> "none", parser |-> "none",
     parserCalls |-> 0, promise |-> "pending", errorCallback |-> Null, servicePromise |-> "pending"]

HistIdle == [steps |-> 0, op |-> "none", ok |-> FALSE, result |-> "none",
             message |-> "", gate |-> FALSE, load |-> 0, croppedModel |-> 0,
             delivered |-> Null, initialCropBox |-> Null, visualSets |-> 0]

\* the state of the service, engines and loads before anything is called
LifeIdle ==
    /\ svc = NewService
    /\ engines = <<>>
    /\ loads = <<>>
    /\ hist = HistIdle

(***************************************************************************)
(* SpecPoint: isPointInCropBox applied to every point and box of a grid    *)
(***************************************************************************)
Coords == (-MaxCoord)..MaxCoord

ProbeIdle == [called |-> FALSE, box |-> DEFAULT_CROP_BOX, p |-> Vec3(0, 0, 0),
              result |-> FALSE, source |-> Null, op |-> "none", fileType |-> "none"]

SceneIdle == [root |-> <<>>, nextGid |-> 1, disposed |-> {}]

CropCallIdle == [done |-> FALSE, before |-> <<>>, cropBox |-> DEFAULT_CROP_BOX,
                 options |-> NoAttributes, result |-> CropResult(FALSE, 0, 0, 0),
                 again |-> Null, twin |-> Null]

InitPoint ==
    /\ \E minX, minY, minZ, maxX, maxY, maxZ \in Coords :
          probe = [ProbeIdle EXCEPT
                     !.box = CropBoxConfig(minX, minY, minZ, maxX, maxY, maxZ)]
    /\ scene = SceneIdle
    /\ cropCall = CropCallIdle
    /\ LifeIdle

CallIsPointInCropBox ==
    /\ ~probe.called
    /\ \E x, y, z \in Coords :
          probe' = [probe EXCEPT !.called = TRUE, !.p = Vec3(x, y, z),
                                 !.result = isPointInCropBox(x, y, z, probe.box)]
    /\ UNCHANGED <<scene, cropCall>>
    /\ UNCHANGED lifeVars

NextPoint == CallIsPointInCropBox

SpecPoint == InitPoint /\ [][NextPoint]_vars

(***************************************************************************)
(* SpecCrop: CheapCropper.applyCrop on a catalogue of scenes               *)
(***************************************************************************)
\* vertex pool: the corners of a tetrahedron, coordinates multiples of 3
Pool == << Vec3(0, 0, 0), Vec3(3, 0, 0), Vec3(0, 3, 0), Vec3(0, 0, 3) >>

\* triangles as triples of 0-based pool indices
TriPool == { <<0, 1, 2>>, <<2, 0, 3>>, <<1, 2, 3>> }

TriLists == UNION { [1..n -> TriPool] : n \in 0..MaxTris }

RECURSIVE Flatten(_)
Flatten(ss) == IF ss = <<>> THEN <<>> ELSE Head(ss) \o Flatten(Tail(ss))

PointArray(p) == <<p.x, p.y, p.z>>

\* an indexed geometry: the whole pool as positions, the triangles as index
IndexedGeometry(gid, tris) ==
    BufferGeometry(gid,
        [a \in {"position"} |->
            BufferAttribute(Flatten([i \in 1..Len(Pool) |-> PointArray(Pool[i])]), 3)],
        TRUE, Flatten(tris))

\* the same triangles as a non-indexed geometry: three positions per triangle
NonIndexedGeometry(gid, tris) ==
    BufferGeometry(gid,
        [a \in {"position"} |->
            BufferAttribute(
              Flatten([n \in 1..(3 * Len(tris)) |->
                 PointArray(Pool[tris[((n - 1) \div 3) + 1][((n - 1) % 3) + 1] + 1])]), 3)],
        FALSE, <<>>)

\* a second mesh: one non-indexed triangle carrying a uv channel
SideGeometry(gid) ==
    BufferGeometry(gid,
        [a \in {"position", "uv"} |->
            IF a = "position"
            THEN BufferAttribute(<<3, 0, 0, 0, 3, 0, 0, 0, 3>>, 3)
            ELSE BufferAttribute(<<0, 0, 1, 0, 0, 1>>, 2)],
        FALSE, <<>>)

\* the geometry with a uv channel added, one item per position
WithUv(g) ==
    LET n == AttrCount(g.attributes["position"])
    IN  [g EXCEPT !.attributes =
           [a \in {"position", "uv"} |->
              IF a = "position" THEN g.attributes["position"]
              ELSE BufferAttribute(
                     [k \in 1..(2 * n) |->
                        g.attributes["position"].array[3 * ((k - 1) \div 2) + ((k - 1) % 2) + 1]],
                     2)]]

\* the longest triangle lists come with a uv channel
Textured(t, g) == IF Len(t) = MaxTris THEN WithUv(g) ELSE g

Geometries ==
    { Textured(t, IndexedGeometry(1, t)) : t \in TriLists } \cup
    { Textured(t, NonIndexedGeometry(1, t)) : t \in TriLists }

\* where the root and the child mesh are placed
Placements ==
    { [rootPos |-> Vec3(0, 0, 0), rootScale |-> 1, childPos |-> Vec3(0, 0, 0)],
      [rootPos |-> Vec3(1, 0, 0), rootScale |-> 1, childPos |-> Vec3(0, 0, 0)],
      [rootPos |-> Vec3(0, 0, -6), rootScale |-> 1, childPos |-> Vec3(0, 2, 0)],
      [rootPos |-> Vec3(-3, -3, -3), rootScale |-> 1, childPos |-> Vec3(3, 3, 3)],
      [rootPos |-> Vec3(0, 0, 0), rootScale |-> 2, childPos |-> Vec3(0, 0, 0)] }

SceneTree(shape, pl, g) ==
    CASE shape = "mesh" ->
           << Object3D("Mesh", 0, pl.rootPos, pl.rootScale, g) >>
      [] shape = "group-mesh" ->
           << Object3D("Group", 0, pl.rootPos, pl.rootScale, NoGeometry),
              Object3D("Mesh", 1, pl.childPos, 1, g) >>
      [] OTHER ->
           << Object3D("Group", 0, pl.rootPos, pl.rootScale, NoGeometry),
              Object3D("Mesh", 1, pl.childPos, 1, g),
              Object3D("Mesh", 1, Vec3(0, 0, 0), 1, SideGeometry(2)) >>

NoChildMove == { pl \in Placements : pl.childPos = Vec3(0, 0, 0) }

SceneTrees(g) ==
    { SceneTree("mesh", pl, g) : pl \in NoChildMove } \cup
    { SceneTree("group-mesh", pl, g) : pl \in Placements } \cup
    { SceneTree("group-mesh-mesh", pl, g) : pl \in { q \in Placements : q.rootScale = 1 /\ q.rootPos.x = 0 } }

\* roots with nothing to crop, or with meshes the cropper has to skip: an
\* empty group, a mesh without a geometry, and a group holding a mesh without
\* a geometry, a mesh whose geometry has no position channel and a mesh with
\* one triangle
BareGeometry(gid) ==
    BufferGeometry(gid, [a \in {"uv"} |-> BufferAttribute(<<0, 0, 1, 0, 0, 1>>, 2)],
                   FALSE, <<>>)

BareTrees ==
    { << Object3D("Group", 0, Vec3(0, 0, 0), 1, NoGeometry) >>,
      << Object3D("Mesh", 0, Vec3(0, 0, 0), 1, NoGeometry) >>,
      << Object3D("Group", 0, Vec3(0, 0, 0), 1, NoGeometry),
         Object3D("Mesh", 1, Vec3(0, 0, 0), 1, NoGeometry),
         Object3D("Mesh", 1, Vec3(0, 0, 0), 1, BareGeometry(1)),
         Object3D("Mesh", 1, Vec3(0, 0, 0), 1, SideGeometry(2)) >> }

\* crop boxes: one interval per axis.  Every interval is tried on every axis
\* against two settings of the other axes, plus the boxes with the same
\* interval on all three axes.
AxisIntervals == { <<0, 3>>, <<0, 1>>, <<1, 2>>, <<2, 0>>, <<-3, 6>> }

BoxOf(ix, iy, iz) == CropBoxConfig(ix[1], iy[1], iz[1], ix[2], iy[2], iz[2])

CropBoxes ==
    { BoxOf(i, o, o) : i \in AxisIntervals, o \in {<<0, 3>>, <<-3, 6>>} } \cup
    { BoxOf(o, i, o) : i \in AxisIntervals, o \in {<<0, 3>>, <<-3, 6>>} } \cup
    { BoxOf(o, o, i) : i \in AxisIntervals, o \in {<<0, 3>>, <<-3, 6>>} } \cup
    { BoxOf(i, i, i) : i \in AxisIntervals }

Strategies == {"centroid", "all-vertices", "any-vertex"}

CropOptions ==
    { NoAttributes } \cup
    { [k \in {"strategy"} |-> st] : st \in Strategies } \cup
    { [k \in OptionKeys |-> IF k = "strategy" THEN "any-vertex" ELSE "no"] }

InitCrop ==
    /\ probe = ProbeIdle
    /\ \E g \in Geometries : \E tree \in SceneTrees(g) \cup BareTrees :
          scene = [root |-> updateMatrixWorld(tree),
                   nextGid |-> 3, disposed |-> {}]
    /\ cropCall = CropCallIdle
    /\ LifeIdle

Cropped(cropBox, options, r) ==
    /\ scene' = [root |-> r.root, nextGid |-> r.nextGid,
                 disposed |-> scene.disposed \cup r.disposed]
    /\ cropCall' = [done |-> TRUE, before |-> scene.root, cropBox |-> cropBox,
                    options |-> options, result |-> r.result, again |-> Null,
                    twin |-> cropCall.twin]

CallApplyCrop ==
    /\ ~cropCall.done
    /\ \E cropBox \in CropBoxes, options \in CropOptions :
          Cropped(cropBox, options,
                  CheapCropper_applyCrop(scene.root, cropBox, options, scene.nextGid))
    /\ UNCHANGED probe
    /\ UNCHANGED lifeVars

NextCrop == CallApplyCrop

SpecCrop == InitCrop /\ [][NextCrop]_vars

\* a second applyCrop on the same root with the box and options of the first
\* call; `again' keeps the tree the second call started from and its result
CroppedAgain(r) ==
    /\ scene' = [root |-> r.root, nextGid |-> r.nextGid,
                 disposed |-> scene.disposed \cup r.disposed]
    /\ cropCall' = [cropCall EXCEPT
                      !.again = Some([before |-> scene.root, result |-> r.result])]

CallApplyCropAgain ==
    /\ cropCall.done
    /\ cropCall.again = Null
    /\ CroppedAgain(CheapCropper_applyCrop(scene.root, cropCall.cropBox,
                                           cropCall.options, scene.nextGid))
    /\ UNCHANGED probe
    /\ UNCHANGED lifeVars

\* the same list of triangles as an indexed mesh (the scene) and as a
\* non-indexed mesh (the twin), placed alike
InitTwin ==
    /\ probe = ProbeIdle
    /\ \E t \in TriLists, pl \in NoChildMove :
          /\ scene = [root |-> updateMatrixWorld(
                                  SceneTree("mesh", pl, IndexedGeometry(1, t))),
                      nextGid |-> 3, disposed |-> {}]
          /\ cropCall = [CropCallIdle EXCEPT !.twin =
                           Some([root |-> updateMatrixWorld(
                                    SceneTree("mesh", pl, NonIndexedGeometry(2, t))),
                                 result |-> CropResult(FALSE, 0, 0, 0)])]
    /\ LifeIdle

\* a is the outcome on the scene, b the outcome on the twin
CroppedBoth(cropBox, options, a, b) ==
    /\ scene' = [root |-> a.root, nextGid |-> a.nextGid,
                 disposed |-> scene.disposed \cup a.disposed \cup b.disposed]
    /\ cropCall' = [done |-> TRUE, before |-> scene.root, cropBox |-> cropBox,
                    options |-> options, result |-> a.result, again |-> Null,
                    twin |-> Some([root |-> b.root, result |-> b.result])]

\* applyCrop on the scene and on its twin with one crop box and options
CallApplyCropOnBoth ==
    /\ ~cropCall.done
    /\ \E cropBox \in CropBoxes, options \in CropOptions :
          CroppedBoth(cropBox, options,
                      CheapCropper_applyCrop(scene.root, cropBox, options, scene.nextGid),
                      CheapCropper_applyCrop(cropCall.twin[1].root, cropBox, options,
                                             scene.nextGid + 1))
    /\ UNCHANGED probe
    /\ UNCHANGED lifeVars

NextTwin == CallApplyCropOnBoth

SpecTwin == InitTwin /\ [][NextTwin]_vars

NextRecrop == CallApplyCrop \/ CallApplyCropAgain

SpecRecrop == InitCrop /\ [][NextRecrop]_vars

(***************************************************************************)
(* Spec: the service, the engines it constructs and the component's        *)
(* download action, under every interleaving of the calls with the         *)
(* completions of the loads in flight                                      *)
(***************************************************************************)
\* BufferGeometry.scale(k, k, k)
scaleGeometry(g, k) ==
    [g EXCEPT !.attributes["position"].array = [n \in DOMAIN @ |-> k * @[n]]]

\* what a parser can deliver: a group holding an indexed mesh of two
\* triangles, and a single non-indexed mesh whose root is off the origin
ParsedModels ==
    { << Object3D("Group", 0, Vec3(0, 0, 0), 1, NoGeometry),
         Object3D("Mesh", 1, Vec3(0, 0, 0), 1,
                  scaleGeometry(IndexedGeometry(1, << <<0, 1, 2>>, <<2, 0, 3>> >>),
                                Unit)) >>,
      << Object3D("Mesh", 0, Vec3(Unit, 0, 0), 1,
                  scaleGeometry(NonIndexedGeometry(1, << <<0, 1, 2>> >>), Unit)) >> }

\* what a loader's error callback can deliver: an Error, or an event
ParserErrors ==
    { [isError |-> TRUE, message |-> "Unexpected token"],
      [isError |-> FALSE, message |-> ""] }

FetchError == [isError |-> TRUE, message |-> "Failed to fetch"]

Sources == { PlainUrl("fbx"), BlobUrl("unknown") }

\* arguments of the mutators.  No value has a 5 in its third decimal, where
\* value * 100 is not exact in floating point.
CropBoxInputs == { DEFAULT_CROP_BOX }

CropBoxKeys == {"maxZ"}

CropBoxValues == { Unit \div 2 + 4 }

TransformInputs ==
    { [position |-> Vec3(4 * Unit + 4, 0, 0), rotation |-> Vec3(0, 0, 0)] }

PositionInputs == { [k \in {"x"} |-> 4 * Unit] }

RotationInputs == { [k \in {"y"} |-> 0] }

\* { ...current, ...updates } on a Vec3
mergeVec(current, updates) ==
    [k \in {"x", "y", "z"} |-> IF k \in DOMAIN updates THEN updates[k] ELSE current[k]]

Init ==
    /\ probe = ProbeIdle
    /\ scene = SceneIdle
    /\ cropCall = CropCallIdle
    /\ LifeIdle

Did(op, ok, result, gate, load) ==
    [hist EXCEPT !.steps = @ + 1, !.op = op, !.ok = ok, !.result = result,
                 !.message = "", !.gate = gate, !.load = load,
                 !.delivered = Null]

\* the behaviours examined are those of at most MaxSteps operations; the
\* variables of the other specifications stay idle
Budget == hist.steps < MaxSteps /\ UNCHANGED pureVars

\* the engines after the service called op on the one it holds, if any
disposeHeld(es, n) == IF n = 0 THEN es ELSE [es EXCEPT ![n] = Engine_dispose(@)]

updateCropBoxHeld(es, n, box) ==
    IF n = 0 THEN es ELSE [es EXCEPT ![n] = Engine_updateCropBox(@, box)]

setMeshTransformHeld(es, n, transform) ==
    IF n = 0 THEN es ELSE [es EXCEPT ![n] = Engine_setMeshTransform(@, transform)]

\* initViewport hands the service's visual settings to the new engine
syncVisual(e, s) ==
    Engine_setViewHelperVisibility(
      Engine_setGridVisibility(
        Engine_setCropBoxColor(
          Engine_setBoxVisibility(e, s.boxVisible),
          s.cropBoxColor),
        s.gridVisible),
      s.viewHelperVisible)

\* ModelCropperService.initViewport
InitViewport ==
    /\ Budget
    /\ engines' = Append(disposeHeld(engines, svc.engine),
                         syncVisual(
                           Engine_setMeshTransform(
                             Engine_updateCropBox(NewEngine, svc.cropBox),
                             svc.meshTransform),
                           svc))
    /\ svc' = [svc EXCEPT !.engine = Len(engines) + 1]
    /\ hist' = Did("initViewport", TRUE, "returned", FALSE, 0)
    /\ UNCHANGED loads

\* ModelCropperService.loadModel with no engine: throws
LoadModelWithoutViewport ==
    /\ Budget
    /\ svc.engine = 0
    /\ hist' = Did("loadModel", FALSE, "threw", FALSE, 0)
    /\ UNCHANGED <<svc, engines, loads>>

\* ModelCropperService.loadModel up to the await, which is
\* ModelCropEngine.loadModel up to its first await
LoadModel ==
    /\ Budget
    /\ svc.engine # 0
    /\ \E src \in Sources : loads' = Append(loads, NewLoad(svc.engine, src))
    /\ engines' = [engines EXCEPT ![svc.engine] = Engine_setLoadingState(@, "loading")]
    /\ svc' = onLoadingStateChange([svc EXCEPT !.errorMessage = Null], "loading")
    /\ hist' = Did("loadModel", TRUE, "pending", FALSE, Len(loads) + 1)

\* a plain URL is resolved in a microtask: it runs before any callback of a
\* fetch or of a parser, though after the rest of the caller's own code
MicrotaskPending ==
    \E l \in 1..Len(loads) : loads[l].pc = "resolving" /\ loads[l].src.kind = "url"

\* resolveModelSource resolved: the load enters the try block, removes the
\* model in place and hands the URL to a loader
SourceResolved(l) ==
    /\ Budget
    /\ loads[l].pc = "resolving"
    /\ loads[l].src.kind = "url" \/ ~MicrotaskPending
    /\ engines' = [engines EXCEPT ![loads[l].engine] = Engine_removeExisting(@)]
    /\ loads' = [loads EXCEPT
                   ![l].pc = "parsing",
                   ![l].objectUrl = IF loads[l].src.kind = "url" THEN "none"
                                    ELSE "created",
                   ![l].loader = LoaderFor(loads[l].src.fileType),
                   ![l].parser = "pending",
                   ![l].parserCalls = @ + 1]
    /\ hist' = Did("sourceResolved", TRUE, "pending", FALSE, l)
    /\ UNCHANGED svc

\* resolveModelSource rejected (the fetch of a blob: URL failed): the await
\* is outside the try block, so only the promise reports it
SourceFailed(l) ==
    /\ Budget
    /\ loads[l].pc = "resolving"
    /\ loads[l].src.kind = "blobUrl"
    /\ ~MicrotaskPending
    /\ loads' = [loads EXCEPT ![l].pc = "settled", ![l].promise = "rejected",
                              ![l].servicePromise = "rejected"]
    /\ svc' = Service_loadModel_catch(svc, FetchError)
    /\ hist' = Did("sourceFailed", FALSE, "rejected", FALSE, l)
    /\ UNCHANGED engines

\* a loadModel without the finally block
revoked_Never(objectUrl) == objectUrl

\* finally { revokeUrl?.() }
revoked(objectUrl) == IF objectUrl = "created" THEN "revoked" ELSE objectUrl

\* the engine's promise resolved, and the service resumes after its await
resumed(l, es, tree) ==
    /\ engines' = es
    /\ svc' = Service_loadModel_resumed(onLoadingStateChange(svc, "loaded"), es)
    /\ loads' = [loads EXCEPT
                   ![l].pc = "settled", ![l].parser = "resolved",
                   ![l].promise = "resolved",
                   ![l].objectUrl = revoked(@),
                   ![l].servicePromise = IF svc.engine = 0 THEN "rejected"
                                         ELSE "resolved"]
    /\ hist' = [Did("parserResolved", TRUE, "resolved", FALSE, l) EXCEPT
                   !.delivered = Some(tree)]

\* the loader's onLoad callback
ParserResolved(l) ==
    /\ Budget
    /\ loads[l].pc = "parsing"
    /\ ~MicrotaskPending
    /\ \E tree \in ParsedModels :
          resumed(l, [engines EXCEPT ![loads[l].engine] =
                                        Engine_installModel(@, l, tree)],
                  tree)

\* the engine's catch block ran, and the service resumes in its own
caught(l, error, c) ==
    /\ engines' = [engines EXCEPT ![loads[l].engine] = c.engine]
    /\ svc' = IF c.rethrown
              THEN Service_loadModel_catch(
                     onError(onLoadingStateChange(svc, c.engine.loadingState),
                             c.onError), error)
              ELSE Service_loadModel_resumed(
                     onError(onLoadingStateChange(svc, c.engine.loadingState),
                             c.onError),
                     [engines EXCEPT ![loads[l].engine] = c.engine])
    /\ loads' = [loads EXCEPT
                   ![l].pc = "settled", ![l].parser = "rejected",
                   ![l].errorCallback = c.onError,
                   ![l].objectUrl = revoked(@),
                   ![l].promise = IF c.rethrown THEN "rejected" ELSE "resolved",
                   ![l].servicePromise =
                       IF c.rethrown \/ svc.engine = 0 THEN "rejected"
                       ELSE "resolved"]
    /\ hist' = Did("parserRejected", FALSE,
                   IF c.rethrown THEN "rejected" ELSE "resolved", FALSE, l)

\* the loader's onError callback
ParserRejected(l) ==
    /\ Budget
    /\ loads[l].pc = "parsing"
    /\ ~MicrotaskPending
    /\ \E error \in ParserErrors :
          caught(l, error, Engine_loadModel_catch(engines[loads[l].engine], error))

\* updateCropBox, and the handlers that end in it
cropBoxUpdated(op, rounded) ==
    /\ Budget
    /\ svc' = Service_updateCropBox(svc, rounded)
    /\ engines' = updateCropBoxHeld(engines, svc.engine, rounded)
    /\ hist' = [Did(op, TRUE, "returned", FALSE, 0) EXCEPT !.initialCropBox = Null]
    /\ UNCHANGED loads

UpdateCropBox ==
    \E box \in CropBoxInputs : cropBoxUpdated("updateCropBox", roundCropBox(box))

UpdateCropBoxValue ==
    \E key \in CropBoxKeys, value \in CropBoxValues :
       cropBoxUpdated("updateCropBoxValue",
                      roundCropBox([svc.cropBox EXCEPT ![key] = value]))

\* updateTransform, and the handlers that end in it
transformUpdated(op, rounded) ==
    /\ Budget
    /\ svc' = Service_updateTransform(svc, rounded)
    /\ engines' = setMeshTransformHeld(engines, svc.engine, rounded)
    /\ hist' = Did(op, TRUE, "returned", FALSE, 0)
    /\ UNCHANGED loads

UpdateTransform ==
    \E transform \in TransformInputs :
       transformUpdated("updateTransform", roundTransform(transform))

UpdatePosition ==
    \E position \in PositionInputs :
       transformUpdated("updatePosition",
          roundTransform([svc.meshTransform EXCEPT
                            !.position = mergeVec(@, position)]))

\* the rotation unit is radians unless setInitialValues changes it
UpdateRotation ==
    \E rotation \in RotationInputs :
       transformUpdated("updateRotation",
          roundTransform([svc.meshTransform EXCEPT
                            !.rotation = mergeVec(@, rotation)]))

ResetTransform ==
    transformUpdated("resetTransform", roundTransform(DEFAULT_MESH_TRANSFORM))

\* resetCropBox: with a model the service re-reads the engine's box; without
\* one both go back to the default box
ResetCropBox ==
    /\ Budget
    /\ svc' = [svc EXCEPT !.cropBox =
                 IF svc.engine # 0 /\ engines[svc.engine].loadedModel.id # 0
                 THEN roundCropBox(engines[svc.engine].currentCropBox)
                 ELSE roundCropBox(DEFAULT_CROP_BOX)]
    /\ engines' = IF svc.engine # 0 /\ engines[svc.engine].loadedModel.id = 0
                  THEN updateCropBoxHeld(engines, svc.engine,
                                         roundCropBox(DEFAULT_CROP_BOX))
                  ELSE engines
    /\ hist' = [Did("resetCropBox", TRUE, "returned", FALSE, 0) EXCEPT
                  !.initialCropBox = Null]
    /\ UNCHANGED loads

\* applyCrop with no engine returns a failed result and records nothing
ApplyCropWithoutViewport ==
    /\ Budget
    /\ svc.engine = 0
    /\ hist' = Did("applyCrop", FALSE, "returned", FALSE, 0)
    /\ UNCHANGED <<svc, engines, loads>>

cropApplied(r) ==
    /\ engines' = [engines EXCEPT ![svc.engine] = r.engine]
    /\ svc' = Service_applyCrop(svc, r.result)
    /\ hist' = [Did("applyCrop", r.result.success, "returned", FALSE, 0) EXCEPT
                  !.croppedModel = IF r.result.success
                                   THEN r.engine.loadedModel.id ELSE @]
    /\ UNCHANGED loads

\* ModelCropperService.applyCrop -> ModelCropEngine.applyCheapCrop()
ApplyCrop ==
    /\ Budget
    /\ svc.engine # 0
    /\ cropApplied(Engine_applyCheapCrop(engines[svc.engine], NoAttributes))

\* exportGlb with no engine throws; onDownload emits exportError
DownloadWithoutViewport ==
    /\ Budget
    /\ svc.engine = 0
    /\ hist' = [Did("onDownload", FALSE, "threw", canExport(svc), 0) EXCEPT
                  !.message = "Viewport not initialized"]
    /\ UNCHANGED <<svc, engines, loads>>

downloaded(x) ==
    /\ hist' = [Did("onDownload", x.exported, x.settled, canExport(svc), 0) EXCEPT
                  !.message = x.message]
    /\ engines' = [engines EXCEPT ![svc.engine] = x.engine]
    /\ UNCHANGED <<svc, loads>>

\* ModelCropperComponent.onDownload -> ModelCropperService.exportGlb ->
\* ModelCropEngine.exportToGlb
OnDownload ==
    /\ Budget
    /\ svc.engine # 0
    /\ \E exporterSucceeds \in BOOLEAN :
          downloaded(Engine_exportToGlb(engines[svc.engine], exporterSucceeds))

\* ModelCropperService.dispose
Dispose ==
    /\ Budget
    /\ engines' = disposeHeld(engines, svc.engine)
    /\ svc' = NewService
    /\ hist' = Did("dispose", TRUE, "returned", FALSE, 0)
    /\ UNCHANGED loads

\* ModelCropperComponent.ngOnInit -> ModelCropperService.setInitialValues,
\* before the viewport exists
InitialCropBoxes == { CropBoxConfig(-2 * Unit, -2 * Unit, -2 * Unit,
                                    2 * Unit, 2 * Unit, 2 * Unit + 4) }

SetInitialValues ==
    /\ Budget
    /\ engines = <<>>
    /\ hist.op = "none"
    /\ \E cropBox \in InitialCropBoxes,
          transform \in {Null} \cup { Some(t) : t \in TransformInputs } :
          /\ svc' = Service_setInitialValues(svc, Some(cropBox), transform)
          /\ hist' = [Did("setInitialValues", TRUE, "returned", FALSE, 0) EXCEPT
                        !.initialCropBox = Some(cropBox)]
    /\ UNCHANGED <<engines, loads>>

Next ==
    \/ InitViewport
    \/ LoadModelWithoutViewport
    \/ LoadModel
    \/ \E l \in 1..Len(loads) : SourceResolved(l)
    \/ \E l \in 1..Len(loads) : SourceFailed(l)
    \/ \E l \in 1..Len(loads) : ParserResolved(l)
    \/ \E l \in 1..Len(loads) : ParserRejected(l)
    \/ UpdateCropBox
    \/ UpdateCropBoxValue
    \/ UpdateTransform
    \/ UpdatePosition
    \/ UpdateRotation
    \/ ResetTransform
    \/ ResetCropBox
    \/ ApplyCropWithoutViewport
    \/ ApplyCrop
    \/ DownloadWithoutViewport
    \/ OnDownload
    \/ Dispose

Spec == Init /\ [][Next]_vars

\* the visual settings: through the service, or on the engine it hands out
\* with getEngine()
ColorInputs ==
    { <<"f", "f", "0", "0", "0", "0">>, <<" ", "#", "F", "0", "0">>,
      <<"r", "e", "d">> }

setBoxVisibilityHeld(es, n, visible) ==
    IF n = 0 THEN es ELSE [es EXCEPT ![n] = Engine_setBoxVisibility(@, visible)]

setCropBoxColorHeld(es, n, color) ==
    IF n = 0 THEN es ELSE [es EXCEPT ![n] = Engine_setCropBoxColor(@, color)]

setGridVisibilityHeld(es, n, visible) ==
    IF n = 0 THEN es ELSE [es EXCEPT ![n] = Engine_setGridVisibility(@, visible)]

setViewHelperVisibilityHeld(es, n, visible) ==
    IF n = 0 THEN es
    ELSE [es EXCEPT ![n] = Engine_setViewHelperVisibility(@, visible)]

\* the behaviours examined change a visual setting at most MaxVisualSets
\* times
MaxVisualSets == 2

visualSet(op, direct, s, es) ==
    /\ Budget
    /\ hist.visualSets < MaxVisualSets
    /\ direct => svc.engine # 0
    /\ svc' = IF direct THEN svc ELSE s
    /\ engines' = es
    /\ hist' = [Did(op, TRUE, "returned", FALSE, 0) EXCEPT !.visualSets = @ + 1]
    /\ UNCHANGED loads

ToggleBoxVisibility ==
    \E visible \in BOOLEAN, direct \in BOOLEAN :
       visualSet("toggleBoxVisibility", direct,
                 Service_toggleBoxVisibility(svc, visible),
                 setBoxVisibilityHeld(engines, svc.engine, visible))

SetCropBoxColor ==
    \E color \in ColorInputs, direct \in BOOLEAN :
       visualSet("setCropBoxColor", direct,
                 Service_setCropBoxColor(svc, color),
                 setCropBoxColorHeld(engines, svc.engine,
                                     IF direct THEN color
                                     ELSE normalizeColor(color)))

ToggleGridVisibility ==
    \E visible \in BOOLEAN, direct \in BOOLEAN :
       visualSet("toggleGridVisibility", direct,
                 Service_toggleGridVisibility(svc, visible),
                 setGridVisibilityHeld(engines, svc.engine, visible))

ToggleViewHelperVisibility ==
    \E visible \in BOOLEAN, direct \in BOOLEAN :
       visualSet("toggleViewHelperVisibility", direct,
                 Service_toggleViewHelperVisibility(svc, visible),
                 setViewHelperVisibilityHeld(engines, svc.engine, visible))

\* a session in which the user also changes the visual settings
NextVisual ==
    \/ InitViewport
    \/ LoadModel
    \/ \E l \in 1..Len(loads) : SourceResolved(l)
    \/ \E l \in 1..Len(loads) : ParserResolved(l)
    \/ ApplyCrop
    \/ ToggleBoxVisibility
    \/ SetCropBoxColor
    \/ ToggleGridVisibility
    \/ ToggleViewHelperVisibility

SpecVisual == Init /\ [][NextVisual]_vars

\* the component's start: initial values, viewport, loads, and the user's
\* first edits
NextSetup ==
    \/ SetInitialValues
    \/ InitViewport
    \/ LoadModel
    \/ \E l \in 1..Len(loads) : SourceResolved(l)
    \/ \E l \in 1..Len(loads) : ParserResolved(l)
    \/ UpdateCropBoxValue
    \/ ApplyCrop
    \/ OnDownload

SpecSetup == Init /\ [][NextSetup]_vars

(***************************************************************************)
(* Vocabulary of the properties                                            *)
(***************************************************************************)
\* world position of local point p of node i: up the chain of ancestors
RECURSIVE WorldOf(_, _, _)
WorldOf(tree, i, p) ==
    LET n == tree[i]
        q == Vec3(n.scale * p.x + n.position.x, n.scale * p.y + n.position.y,
                  n.scale * p.z + n.position.z)
    IN  IF n.parent = 0 THEN q ELSE WorldOf(tree, n.parent, q)

RECURSIVE TranslationOnly(_, _)
TranslationOnly(tree, i) ==
    /\ tree[i].scale = 1
    /\ tree[i].parent # 0 => TranslationOnly(tree, tree[i].parent)

VertexAt(g, k) ==
    LET a == g.attributes["position"].array
    IN  Vec3(a[3 * k + 1], a[3 * k + 2], a[3 * k + 3])

VertexTotal(g) == Len(g.attributes["position"].array) \div 3

NumTriangles(g) == IF g.indexed THEN Len(g.index) \div 3 ELSE VertexTotal(g) \div 3

\* the triangles of a geometry, each a triple of local positions
TrianglesOf(g) ==
    [t \in 1..NumTriangles(g) |->
       [c \in 1..3 |->
          VertexAt(g, IF g.indexed THEN g.index[3 * (t - 1) + c] ELSE 3 * (t - 1) + c - 1)]]

WorldTriangles(tree, i) ==
    LET ts == TrianglesOf(tree[i].geometry)
    IN  [t \in 1..Len(ts) |-> [c \in 1..3 |-> WorldOf(tree, i, ts[t][c])]]

Inside(p, box) ==
    /\ box.minX <= p.x /\ p.x <= box.maxX
    /\ box.minY <= p.y /\ p.y <= box.maxY
    /\ box.minZ <= p.z /\ p.z <= box.maxZ

\* the mean of the three vertices lies in the box (compared without dividing)
MeanInside(w, box) ==
    /\ 3 * box.minX <= w[1].x + w[2].x + w[3].x
    /\ w[1].x + w[2].x + w[3].x <= 3 * box.maxX
    /\ 3 * box.minY <= w[1].y + w[2].y + w[3].y
    /\ w[1].y + w[2].y + w[3].y <= 3 * box.maxY
    /\ 3 * box.minZ <= w[1].z + w[2].z + w[3].z
    /\ w[1].z + w[2].z + w[3].z <= 3 * box.maxZ

StrategyOf(options) ==
    IF "strategy" \in DOMAIN options THEN options["strategy"] ELSE "centroid"

KeepRule(strategy, w, box) ==
    CASE strategy = "centroid" -> MeanInside(w, box)
      [] strategy = "all-vertices" -> \A c \in 1..3 : Inside(w[c], box)
      [] strategy = "any-vertex" -> \E c \in 1..3 : Inside(w[c], box)

\* the meshes CheapCropper.applyCrop processes
Processed(tree) ==
    { i \in 1..Len(tree) : /\ tree[i].type = "Mesh"
                           /\ tree[i].geometry.gid # 0
                           /\ "position" \in DOMAIN tree[i].geometry.attributes }

RECURSIVE SumOver(_, _)
SumOver(S, f) ==
    IF S = {} THEN 0
    ELSE LET x == CHOOSE y \in S : TRUE IN f[x] + SumOver(S \ {x}, f)

TotalTriangles(tree) ==
    SumOver(Processed(tree), [i \in Processed(tree) |-> NumTriangles(tree[i].geometry)])

Inverted(box) == box.minX > box.maxX \/ box.minY > box.maxY \/ box.minZ > box.maxZ

\* every position of mesh i, in world space, is in the box
Encloses(box, tree, i) ==
    \A k \in 0..(VertexTotal(tree[i].geometry) - 1) :
        Inside(WorldOf(tree, i, VertexAt(tree[i].geometry, k)), box)

\* the world-space extent of mesh i misses the box on some axis
Misses(box, tree, i) ==
    LET W == { WorldOf(tree, i, VertexAt(tree[i].geometry, k)) :
                 k \in 0..(VertexTotal(tree[i].geometry) - 1) }
    IN  \/ \A w \in W : w.x < box.minX
        \/ \A w \in W : w.x > box.maxX
        \/ \A w \in W : w.y < box.minY
        \/ \A w \in W : w.y > box.maxY
        \/ \A w \in W : w.z < box.minZ
        \/ \A w \in W : w.z > box.maxZ

ShiftBox(box, d) ==
    CropBoxConfig(box.minX + d.x, box.minY + d.y, box.minZ + d.z,
                  box.maxX + d.x, box.maxY + d.y, box.maxZ + d.z)

Negate(d) == Vec3(0 - d.x, 0 - d.y, 0 - d.z)

(***************************************************************************)
(* C4: CheapCropper.applyCrop keeps a triangle iff the selected rule holds *)
(* of its three world-space vertices: centroid - their mean is in the box; *)
(* all-vertices - all three are; any-vertex - at least one is; no strategy *)
(* given - the centroid rule.  The surviving triangles are exactly the     *)
(* triangles of the input that pass, whole and in their original order.    *)
(***************************************************************************)
Survivors(local, world, strategy, box) ==
    LET Keep(t) == KeepRule(strategy, world[t], box)
        kept == SelectSeq([t \in 1..Len(local) |-> t], Keep)
    IN  [n \in 1..Len(kept) |-> local[kept[n]]]

C4_KeepRule ==
    cropCall.done =>
      \A i \in Processed(cropCall.before) :
         TrianglesOf(scene.root[i].geometry) =
            Survivors(TrianglesOf(cropCall.before[i].geometry),
                      WorldTriangles(cropCall.before, i),
                      StrategyOf(cropCall.options), cropCall.cropBox)

C4_Witness ==
    /\ cropCall.done
    /\ cropCall.options = NoAttributes
    /\ cropCall.result.trianglesKept > 0
    /\ cropCall.result.trianglesRemoved > 0
    /\ \E i \in Processed(cropCall.before) :
          \E t \in 1..NumTriangles(cropCall.before[i].geometry) :
             LET w == WorldTriangles(cropCall.before, i)[t]
             IN  /\ MeanInside(w, cropCall.cropBox)
                 /\ \E c \in 1..3 : ~Inside(w[c], cropCall.cropBox)

(***************************************************************************)
(* C5: isPointInCropBox(x, y, z, box) is true iff min <= coordinate <= max *)
(* on each of the three axes; so the faces and corners of a box are        *)
(* inside, and a box with min = max on every axis holds that one point.    *)
(***************************************************************************)
C5_ClosedIntervals ==
    probe.called =>
      LET b == probe.box
          p == probe.p
      IN  /\ probe.result <=> /\ b.minX <= p.x /\ p.x <= b.maxX
                              /\ b.minY <= p.y /\ p.y <= b.maxY
                              /\ b.minZ <= p.z /\ p.z <= b.maxZ
          /\ (/\ b.minX <= b.maxX /\ b.minY <= b.maxY /\ b.minZ <= b.maxZ
              /\ p.x \in {b.minX, b.maxX}
              /\ p.y \in {b.minY, b.maxY}
              /\ p.z \in {b.minZ, b.maxZ}) => probe.result
          /\ (b.minX = b.maxX /\ b.minY = b.maxY /\ b.minZ = b.maxZ)
               => (probe.result <=> p = Vec3(b.minX, b.minY, b.minZ))

C5_Witness ==
    /\ probe.called
    /\ probe.box.minX < probe.box.maxX
    /\ probe.box.minY < probe.box.maxY
    /\ probe.box.minZ = probe.box.maxZ
    /\ probe.p = Vec3(probe.box.maxX, probe.box.minY, probe.box.maxZ)
    /\ probe.result

(***************************************************************************)
(* C6: with a box that has min > max on some axis, isPointInCropBox is     *)
(* false of every point, and applyCrop keeps no triangle of any mesh:      *)
(* trianglesKept = 0 and trianglesRemoved = the number of triangles there  *)
(* were, whatever the strategy.                                            *)
(***************************************************************************)
WorldGrid == (-6)..6

C6_InvertedBoxIsEmpty ==
    (cropCall.done /\ Inverted(cropCall.cropBox)) =>
      /\ \A x, y, z \in WorldGrid : ~isPointInCropBox(x, y, z, cropCall.cropBox)
      /\ cropCall.result.trianglesKept = 0
      /\ cropCall.result.trianglesRemoved = TotalTriangles(cropCall.before)
      /\ \A i \in Processed(cropCall.before) : NumTriangles(scene.root[i].geometry) = 0

C6_Witness ==
    /\ cropCall.done
    /\ Inverted(cropCall.cropBox)
    /\ StrategyOf(cropCall.options) = "any-vertex"
    /\ TotalTriangles(cropCall.before) >= 2
    /\ cropCall.result.trianglesRemoved = TotalTriangles(cropCall.before)

C8_WorldSpaceDecision ==
    cropCall.done =>
      \A i \in Processed(cropCall.before) :
         LET tree == cropCall.before
             g == tree[i].geometry
             d == WorldOf(tree, i, Vec3(0, 0, 0))
         IN  /\ TranslationOnly(tree, i) =>
                  TrianglesOf(scene.root[i].geometry) =
                     TrianglesOf(cropGeometry(g, IdentityMatrix,
                                              ShiftBox(cropCall.cropBox, Negate(d)),
                                              MergeOptions(cropCall.options), 0).geometry)
             /\ Misses(cropCall.cropBox, tree, i) =>
                  NumTriangles(scene.root[i].geometry) = 0
             /\ Encloses(cropCall.cropBox, tree, i) =>
                  NumTriangles(scene.root[i].geometry) = NumTriangles(g)

C8_Witness ==
    /\ cropCall.done
    /\ \E i \in Processed(cropCall.before) :
          LET tree == cropCall.before
              g == tree[i].geometry
          IN  /\ tree[i].parent # 0
              /\ TranslationOnly(tree, i)
              /\ NumTriangles(g) >= 1
              /\ \A k \in 0..(VertexTotal(g) - 1) : Inside(VertexAt(g, k), cropCall.cropBox)
              /\ Misses(cropCall.cropBox, tree, i)
              /\ NumTriangles(scene.root[i].geometry) = 0

(***************************************************************************)
(* Vocabulary of the lifecycle properties                                  *)
(***************************************************************************)
\* the model installed in the engine the service holds; 0 if none
HeldModel == IF svc.engine = 0 THEN 0 ELSE engines[svc.engine].loadedModel.id

InvalidatingOps ==
    {"updateCropBox", "updateCropBoxValue", "updateTransform", "updatePosition",
     "updateRotation", "resetTransform"}

CropSucceeded(h) == h.op = "applyCrop" /\ h.ok

LoadingStateEdges ==
    { <<"idle", "loading">>, <<"loading", "loaded">>, <<"loading", "error">>,
      <<"loaded", "loading">>, <<"error", "loading">> }

(***************************************************************************)
(* C1: cropIsValid is true right after an applyCrop that returned          *)
(* success = true, false right after each of updateCropBox,                *)
(* updateCropBoxValue, updateTransform, updatePosition, updateRotation and *)
(* resetTransform, and goes from false to true only by a successful        *)
(* applyCrop                                                               *)
(***************************************************************************)
C1_CropValidity ==
    /\ [](/\ CropSucceeded(hist) => svc.cropIsValid
          /\ hist.op \in InvalidatingOps => ~svc.cropIsValid)
    /\ [][(~svc.cropIsValid /\ svc'.cropIsValid) => CropSucceeded(hist')]_vars

\* a mutator has just run after a crop succeeded
C1_Witness ==
    /\ hist.op \in InvalidatingOps
    /\ hist.croppedModel # 0
    /\ svc.lastCropResult # Null
    /\ svc.lastCropResult[1].success
    /\ ~svc.cropIsValid

(***************************************************************************)
(* C2: loading a new model resets the crop validity: whenever cropIsValid  *)
(* is true and a model is installed, the last successful applyCrop was     *)
(* applied to that model, so after a load completes cropIsValid (and       *)
(* canExport) is false until applyCrop succeeds on the new model           *)
(***************************************************************************)
C2_LoadResetsValidity ==
    (svc.cropIsValid /\ HeldModel # 0) => hist.croppedModel = HeldModel

(***************************************************************************)
(* C3: the component's download action never performs an export while      *)
(* canExport is false: whenever onDownload handed a model to the exporter, *)
(* canExport was true when it was called                                   *)
(***************************************************************************)
C3_ExportOnlyWhenCanExport ==
    (hist.op = "onDownload" /\ hist.ok) => hist.gate

(***************************************************************************)
(* C9: an engine's loadingState starts at idle, every loadModel call sets  *)
(* it to loading, and it changes only along idle->loading,                 *)
(* loading->loaded, loading->error, loaded->loading and error->loading     *)
(***************************************************************************)
C9_LoadingStateEdges ==
    /\ [](/\ hist.op = "initViewport" =>
               engines[svc.engine].loadingState = "idle"
          /\ (hist.op = "loadModel" /\ hist.ok) =>
               engines[loads[hist.load].engine].loadingState = "loading")
    /\ [][\A n \in 1..Len(engines) :
            engines'[n].loadingState # engines[n].loadingState =>
              <<engines[n].loadingState, engines'[n].loadingState>>
                 \in LoadingStateEdges]_vars

(***************************************************************************)
(* C10: when the parser rejects, the engine's loadingState becomes error,  *)
(* the error callback receives a message, the promise of loadModel (and    *)
(* the service's) is rejected, and the load has made its only parser call   *)
(* and takes no further step                                               *)
(***************************************************************************)
C10_ParserRejectionReported ==
    \A l \in 1..Len(loads) :
       loads[l].parser = "rejected" =>
          /\ loads[l].pc = "settled"
          /\ loads[l].parserCalls = 1
          /\ loads[l].promise = "rejected"
          /\ loads[l].servicePromise = "rejected"
          /\ loads[l].errorCallback # Null
          /\ (hist.op = "parserRejected" /\ hist.load = l) =>
                /\ engines[loads[l].engine].loadingState = "error"
                /\ svc.loadingState = "error"
                /\ svc.errorMessage # Null

\* a parser has just rejected with a value that is not an Error
C10_Witness ==
    /\ hist.op = "parserRejected"
    /\ loads[hist.load].parser = "rejected"
    /\ loads[hist.load].errorCallback = Some("Unknown error loading model")

(***************************************************************************)
(* C11: when resolving the source fails, the failure is surfaced as a load *)
(* error: the load's promise is rejected, the error callback has received  *)
(* a message, and right after the load settles the engine's loadingState   *)
(* is error, not loading                                                   *)
(***************************************************************************)
C11_SourceFailureReported ==
    hist.op = "sourceFailed" =>
       /\ loads[hist.load].promise = "rejected"
       /\ loads[hist.load].errorCallback # Null
       /\ engines[loads[hist.load].engine].loadingState = "error"

\* the loads requested on engine n, in the order of the calls
LoadsOf(n) == { l \in 1..Len(loads) : loads[l].engine = n }

(***************************************************************************)
(* C12: when loadModel calls overlap on one engine the latest requested    *)
(* load wins: once all the loads of an engine have settled (and the engine *)
(* has not been disposed), the installed model and the loadingState are    *)
(* those of the load requested last, whichever parser finished first       *)
(***************************************************************************)
C12_LatestLoadWins ==
    \A n \in 1..Len(engines) :
       (/\ ~engines[n].isDisposed
        /\ LoadsOf(n) # {}
        /\ \A l \in LoadsOf(n) : loads[l].pc = "settled") =>
          /\ loads[MaxOf(LoadsOf(n))].parser = "resolved" =>
                /\ engines[n].loadedModel.id = MaxOf(LoadsOf(n))
                /\ engines[n].loadingState = "loaded"
          /\ loads[MaxOf(LoadsOf(n))].parser = "rejected" =>
                /\ engines[n].loadedModel.id = 0
                /\ engines[n].loadingState = "error"

(***************************************************************************)
(* C13: with no model loaded, applyCheapCrop returns (does not throw) a    *)
(* result with success = false and all three counts 0, and exportToGlb     *)
(* rejects with the error 'No model loaded to export'                      *)
(***************************************************************************)
C13_NoModelLoaded ==
    (svc.engine # 0 /\ HeldModel = 0) =>
       /\ hist.op = "applyCrop" =>
             /\ hist.result = "returned"
             /\ svc.lastCropResult = Some(CropResult(FALSE, 0, 0, 0))
       /\ hist.op = "onDownload" =>
             /\ ~hist.ok
             /\ hist.result = "rejected"
             /\ hist.message = "No model loaded to export"

\* applyCrop has just returned from an engine in state loading, whose
\* previous model the load has removed
C13_Witness ==
    /\ hist.op = "applyCrop"
    /\ svc.engine # 0
    /\ HeldModel = 0
    /\ engines[svc.engine].disposedModels # {}
    /\ svc.lastCropResult = Some(CropResult(FALSE, 0, 0, 0))

(***************************************************************************)
(* C14: an export never alters the loadingState: whether exportToGlb       *)
(* resolves or rejects, the engines (loadingState, stored crop box, stored *)
(* transform, loaded model), the service's signals and the loads in flight *)
(* are the same after the call as before it                                *)
(***************************************************************************)
C14_ExportFrame ==
    [][(hist'.op = "onDownload" /\ hist'.steps # hist.steps) =>
          (engines' = engines /\ svc' = svc /\ loads' = loads)]_vars

\* the exporter has just rejected the loaded model
C14_Witness ==
    /\ hist.op = "onDownload"
    /\ hist.ok
    /\ hist.result = "rejected"
    /\ HeldModel # 0


(***************************************************************************)
(* C15: applyCrop is idempotent.  A second call on the same root with the  *)
(* same crop box and options, nothing changed in between, removes no       *)
(* triangle, keeps as many as the first call kept, and leaves every node   *)
(* of the tree (geometry objects included) as the first call left it.      *)
(***************************************************************************)
C15_Idempotent ==
    cropCall.again # Null =>
        /\ cropCall.again[1].result.trianglesRemoved = 0
        /\ cropCall.again[1].result.trianglesKept = cropCall.result.trianglesKept
        /\ scene.root = cropCall.again[1].before

\* a second call after a first call that removed some triangles and kept some
C15_Witness ==
    /\ cropCall.again # Null
    /\ cropCall.result.trianglesRemoved > 0
    /\ cropCall.result.trianglesKept > 0
    /\ cropCall.again[1].result.meshesProcessed > 0


(***************************************************************************)
(* C16: the three strategies compared on one triangle and one box.         *)
(***************************************************************************)
\* testTriangle on triangle t (0-based) of mesh i of the tree the call saw
Keeps(i, t, strategy) ==
    LET g == cropCall.before[i].geometry
    IN  testTriangle(g.attributes["position"],
                     IF g.indexed THEN g.index[3 * t + 1] ELSE 3 * t,
                     IF g.indexed THEN g.index[3 * t + 2] ELSE 3 * t + 1,
                     IF g.indexed THEN g.index[3 * t + 3] ELSE 3 * t + 2,
                     cropCall.before[i].matrixWorld, cropCall.cropBox, strategy)

TrianglesSeen ==
    { <<i, t>> \in (1..Len(cropCall.before)) \X (0..MaxTris) :
         /\ i \in Processed(cropCall.before)
         /\ t < NumTriangles(cropCall.before[i].geometry) }

\* C16 as stated: cropping is strategy-monotonic.  If testTriangle keeps a
\* triangle under all-vertices it keeps it under centroid and any-vertex,
\* and if it discards a triangle under any-vertex it discards it under
\* all-vertices and under centroid.
C16_StrategyMonotonic ==
    cropCall.done =>
      \A it \in TrianglesSeen :
         /\ Keeps(it[1], it[2], "all-vertices") =>
               Keeps(it[1], it[2], "centroid") /\ Keeps(it[1], it[2], "any-vertex")
         /\ ~Keeps(it[1], it[2], "any-vertex") =>
               ~Keeps(it[1], it[2], "all-vertices") /\ ~Keeps(it[1], it[2], "centroid")

\* C16 amended: if testTriangle keeps a triangle under all-vertices it keeps
\* it under centroid (the mean taken exactly) and under any-vertex, and if
\* it discards a triangle under any-vertex it discards it under
\* all-vertices.  A triangle that any-vertex discards may be kept by
\* centroid.
C16_AllVerticesStrictest ==
    cropCall.done =>
      \A it \in TrianglesSeen :
         /\ Keeps(it[1], it[2], "all-vertices") =>
               Keeps(it[1], it[2], "centroid") /\ Keeps(it[1], it[2], "any-vertex")
         /\ ~Keeps(it[1], it[2], "any-vertex") => ~Keeps(it[1], it[2], "all-vertices")

\* one call whose scene has a triangle that all three rules keep and a
\* triangle that any-vertex keeps and all-vertices discards
C16_Witness ==
    /\ cropCall.done
    /\ \E it \in TrianglesSeen : Keeps(it[1], it[2], "all-vertices")
    /\ \E it \in TrianglesSeen :
          Keeps(it[1], it[2], "any-vertex") /\ ~Keeps(it[1], it[2], "all-vertices")


(***************************************************************************)
(* C17: after applyCrop, for every processed mesh, every attribute channel *)
(* that was present before the crop is still present, has the same item    *)
(* size, and has exactly as many items as the position channel.            *)
(***************************************************************************)
C17_ChannelsPreserved ==
    cropCall.done =>
      \A i \in Processed(cropCall.before) :
         \A a \in DOMAIN cropCall.before[i].geometry.attributes :
            /\ a \in DOMAIN scene.root[i].geometry.attributes
            /\ scene.root[i].geometry.attributes[a].itemSize =
                  cropCall.before[i].geometry.attributes[a].itemSize
            /\ Len(scene.root[i].geometry.attributes[a].array) =
                  scene.root[i].geometry.attributes[a].itemSize
                    * AttrCount(scene.root[i].geometry.attributes["position"])

\* an indexed mesh with a uv channel that lost a triangle and kept one
C17_Witness ==
    /\ cropCall.done
    /\ \E i \in Processed(cropCall.before) :
          /\ cropCall.before[i].geometry.indexed
          /\ "uv" \in DOMAIN cropCall.before[i].geometry.attributes
          /\ scene.root[i].geometry.gid # cropCall.before[i].geometry.gid
          /\ NumTriangles(scene.root[i].geometry) > 0
          /\ NumTriangles(scene.root[i].geometry)
                < NumTriangles(cropCall.before[i].geometry)


(***************************************************************************)
(* C18: an indexed geometry and the non-indexed geometry describing the    *)
(* same list of triangles yield equal trianglesKept and equal              *)
(* trianglesRemoved for the same crop box, world transform and strategy.   *)
(***************************************************************************)
C18_IndexedAsNonIndexed ==
    (cropCall.done /\ cropCall.twin # Null) =>
        /\ cropCall.twin[1].result.trianglesKept = cropCall.result.trianglesKept
        /\ cropCall.twin[1].result.trianglesRemoved = cropCall.result.trianglesRemoved

\* both forms cropped, two triangles sharing vertices, one kept, one removed
C18_Witness ==
    /\ cropCall.done
    /\ cropCall.twin # Null
    /\ cropCall.before[1].geometry.indexed
    /\ ~cropCall.twin[1].root[1].geometry.indexed
    /\ cropCall.result.trianglesKept > 0
    /\ cropCall.result.trianglesRemoved > 0
    /\ cropCall.twin[1].result.meshesProcessed = 1


(***************************************************************************)
(* C19: CheapCropper.applyCrop returns success = true for every root, and  *)
(* meshesProcessed is the number of mesh nodes of the subtree (root        *)
(* included) whose geometry has a position attribute, whether or not they  *)
(* lost a triangle.  Meshes without a geometry or without a position       *)
(* attribute are skipped: they are left as they were and add nothing to    *)
(* any count.  A root with no mesh yields all-zero counts.                 *)
(***************************************************************************)
MeshNodes(tree) == { i \in 1..Len(tree) : tree[i].type = "Mesh" }

C19_MeshesProcessed ==
    cropCall.done =>
        /\ cropCall.result.success
        /\ cropCall.result.meshesProcessed = Cardinality(Processed(cropCall.before))
        /\ cropCall.result.trianglesKept + cropCall.result.trianglesRemoved
              = TotalTriangles(cropCall.before)
        /\ cropCall.result.trianglesKept = TotalTriangles(scene.root)
        /\ \A i \in (1..Len(cropCall.before)) \ Processed(cropCall.before) :
              /\ scene.root[i] = cropCall.before[i]
              /\ cropCall.before[i].geometry.gid \notin scene.disposed
        /\ MeshNodes(cropCall.before) = {} =>
              cropCall.result = CropResult(TRUE, 0, 0, 0)

\* a root with a mesh without geometry, a mesh without positions and a
\* mesh that is processed and keeps its only triangle
C19_Witness ==
    /\ cropCall.done
    /\ \E i \in MeshNodes(cropCall.before) : cropCall.before[i].geometry.gid = 0
    /\ \E i \in MeshNodes(cropCall.before) :
          /\ cropCall.before[i].geometry.gid # 0
          /\ ~hasAttribute(cropCall.before[i].geometry, "position")
    /\ cropCall.result.meshesProcessed = 1
    /\ cropCall.result.trianglesRemoved = 0
    /\ cropCall.result.trianglesKept = 1


(***************************************************************************)
(* C20: when a model is fitted on load, the model root's own position is   *)
(* left as the parser delivered it, and the stored crop box is the model's *)
(* world-space bounding box expanded by 0.1 on each of the six faces,      *)
(* wherever the model is.                                                  *)
(***************************************************************************)
C20_FitOnLoad ==
    hist.op = "parserResolved" =>
        LET e == engines[loads[hist.load].engine]
        IN  /\ e.loadedModel.tree[1].position = hist.delivered[1][1].position
            /\ e.currentCropBox = paddedBox(Box3_setFromObject(e.loadedModel.tree))


(***************************************************************************)
(* C21: the crop box supplied as initialCropBox gives the initial crop box *)
(* bounds.  After initViewport and a successful loadModel, and until the   *)
(* user changes the crop box, the service's cropBox and the engine's       *)
(* stored crop box are the supplied box rounded to two decimals.           *)
(***************************************************************************)
C21_InitialCropBoxInEffect ==
    (/\ hist.initialCropBox # Null
     /\ svc.engine # 0
     /\ svc.loadingState = "loaded") =>
        /\ svc.cropBox = roundCropBox(hist.initialCropBox[1])
        /\ engines[svc.engine].currentCropBox = roundCropBox(hist.initialCropBox[1])


(***************************************************************************)
(* C22: a source whose format is detected as unknown is handed to the GLTF *)
(* parser: once its source is resolved the load is with GLTFLoader, and    *)
(* its promise is rejected only if that parser rejected.                   *)
(***************************************************************************)
C22_UnknownGoesToGLTF ==
    \A l \in 1..Len(loads) :
       (loads[l].src.fileType = "unknown" /\ loads[l].parser # "none") =>
          /\ loads[l].loader = "GLTFLoader"
          /\ loads[l].parserCalls = 1
          /\ loads[l].promise = "rejected" => loads[l].parser = "rejected"
          /\ loads[l].parser = "resolved" => loads[l].promise = "resolved"

\* a source of unknown format loaded successfully
C22_Witness ==
    \E l \in 1..Len(loads) :
       /\ loads[l].src.fileType = "unknown"
       /\ loads[l].loader = "GLTFLoader"
       /\ loads[l].promise = "resolved"
       /\ engines[loads[l].engine].loadedModel.id = l


(***************************************************************************)
(* SpecType: one source, and one call that types it.  Every text comes     *)
(* with what it says about the format, written down by hand.               *)
(***************************************************************************)
UrlStems == { <<>>, <<"m", "o", "d", "e", "l">>, <<"a", "/", "M", ".", "x">> }

UrlExtensions ==
    { [s |-> <<".", "g", "l", "b">>, says |-> "glb"],
      [s |-> <<".", "g", "l", "t", "f">>, says |-> "gltf"],
      [s |-> <<".", "f", "b", "x">>, says |-> "fbx"],
      [s |-> <<".", "G", "L", "B">>, says |-> "glb"],
      [s |-> <<".", "G", "l", "t", "f">>, says |-> "gltf"],
      [s |-> <<".", "F", "B", "X">>, says |-> "fbx"],
      [s |-> <<".", "o", "b", "j">>, says |-> "unknown"],
      [s |-> <<>>, says |-> "unknown"],
      [s |-> <<"g", "l", "b">>, says |-> "unknown"],
      [s |-> <<".", "g", "l", "b", "x">>, says |-> "unknown"],
      [s |-> <<".", "g", "l", "b", ".">>, says |-> "unknown"],
      [s |-> <<".", "g", "l", "b", " ">>, says |-> "unknown"] }

\* the query string after the extension; says is the format the query
\* string itself ends in
UrlTails ==
    { [s |-> <<>>, says |-> "same"],
      [s |-> <<"?", "v", "e", "r", "s", "i", "o", "n", "=", "1">>, says |-> "unknown"],
      [s |-> <<"?", "f", "=", "a", ".", "g", "l", "b">>, says |-> "glb"],
      [s |-> <<"?", "t", "=", "1", ".", "F", "B", "X">>, says |-> "fbx"] }

FileNames ==
    { [s |-> <<"m", ".", "g", "l", "b">>, says |-> "glb"],
      [s |-> <<"M", ".", "G", "L", "T", "F">>, says |-> "gltf"],
      [s |-> <<"m", ".", "f", "b", "x">>, says |-> "fbx"],
      [s |-> <<"m", ".", "o", "b", "j">>, says |-> "unknown"],
      [s |-> <<>>, says |-> "unknown"],
      [s |-> <<"m", ".", "g", "l", "b", "?", "v", "=", "1">>, says |-> "unknown"] }

MimeTypes ==
    { [s |-> <<>>, says |-> "unknown"],
      [s |-> <<"m", "o", "d", "e", "l", "/", "g", "l", "t", "f", "-", "b", "i", "n", "a", "r", "y">>, says |-> "glb"],
      [s |-> <<"m", "o", "d", "e", "l", "/", "g", "l", "t", "f", "+", "j", "s", "o", "n">>, says |-> "glb"],
      [s |-> <<"a", "p", "p", "l", "i", "c", "a", "t", "i", "o", "n", "/", "o", "c", "t", "e", "t", "-", "s", "t", "r", "e", "a", "m">>, says |-> "unknown"],
      [s |-> <<"t", "e", "x", "t", "/", "p", "l", "a", "i", "n">>, says |-> "unknown"],
      [s |-> <<"B", "i", "n", "a", "r", "y", "/", "O", "c", "t", "e", "t", "-", "S", "t", "r", "e", "a", "m">>, says |-> "unknown"],
      [s |-> <<"m", "o", "d", "e", "l", "/", "v", "n", "d", ".", "f", "b", "x">>, says |-> "fbx"],
      [s |-> <<"M", "O", "D", "E", "L", "/", "G", "L", "B">>, says |-> "glb"],
      [s |-> <<"i", "m", "a", "g", "e", "/", "p", "n", "g">>, says |-> "unknown"],
      [s |-> <<"a", "p", "p", "l", "i", "c", "a", "t", "i", "o", "n", "/", "x", "-", "f", "b", "x", "+", "g", "l", "t", "f">>, says |-> "fbx"] }

\* the first bytes of the content ("!" stands for a byte that is not text)
Contents ==
    { [s |-> <<"g", "l", "T", "F", "!">>, says |-> "glb"],
      [s |-> <<"K", "a", "y", "d", "a", "r", "a", " ", "F", "B", "X", " ", "B", "i", "n", "a", "r", "y", " ", " ">>, says |-> "fbx"],
      [s |-> <<"{", "\"", "a", "s", "s", "e", "t", "\"">>, says |-> "gltf"],
      [s |-> <<" ", " ", "\n", "\t", "{">>, says |-> "gltf"],
      [s |-> <<" ", " ", " ", " ", " ", " ", " ", " ", " ", " ", " ", " ", " ", " ", " ", " ", " ", " ", " ", " ", " ", " ", " ", " ", " ", " ", " ", " ", " ", " ", " ", "{">>, says |-> "gltf"],
      [s |-> <<" ", " ", " ", " ", " ", " ", " ", " ", " ", " ", " ", " ", " ", " ", " ", " ", " ", " ", " ", " ", " ", " ", " ", " ", " ", " ", " ", " ", " ", " ", " ", " ", "{">>, says |-> "gltf"],
      [s |-> <<";", " ", "F", "B", "X", " ", "7", ".", "3", ".", "0">>, says |-> "unknown"],
      [s |-> <<>>, says |-> "unknown"],
      [s |-> <<" ", "g", "l", "T", "F">>, says |-> "unknown"],
      [s |-> <<"K", "a", "y", "d", "a", "r", "a", " ", "F", "B", "X">>, says |-> "unknown"] }

UrlSources ==
    { [kind |-> "url", name |-> stem \o e.s \o q.s,
       nameSays |-> IF q.says = "same" THEN e.says ELSE q.says,
       hasQuery |-> q.s # <<>>, endsIn |-> e.says,
       type |-> <<>>, typeSays |-> "unknown",
       content |-> <<>>, contentSays |-> "unknown", readable |-> TRUE] :
      stem \in UrlStems, e \in UrlExtensions, q \in UrlTails }

BlobSources ==
    { [kind |-> k, name |-> n.s, nameSays |-> n.says,
       hasQuery |-> FALSE, endsIn |-> n.says,
       type |-> m.s, typeSays |-> m.says,
       content |-> c.s, contentSays |-> c.says, readable |-> TRUE] :
      k \in {"file"}, n \in FileNames, m \in MimeTypes, c \in Contents }
    \cup
    { [kind |-> k, name |-> <<>>, nameSays |-> "unknown",
       hasQuery |-> FALSE, endsIn |-> "unknown",
       type |-> m.s, typeSays |-> m.says,
       content |-> c.s, contentSays |-> IF r THEN c.says ELSE "unknown",
       readable |-> r] :
      k \in {"blob", "blobUrl"}, m \in MimeTypes, c \in Contents, r \in BOOLEAN }

InitType ==
    /\ \E src \in UrlSources \cup BlobSources :
          probe = [ProbeIdle EXCEPT !.source = Some(src)]
    /\ scene = SceneIdle
    /\ cropCall = CropCallIdle
    /\ LifeIdle

CallGetModelFileType ==
    /\ probe.op = "none"
    /\ probe.source[1].kind \in {"url", "file"}
    /\ probe' = [probe EXCEPT !.op = "getModelFileType",
                              !.fileType = getModelFileType(probe.source[1].name)]
    /\ UNCHANGED <<scene, cropCall>>
    /\ UNCHANGED lifeVars

CallResolveModelSource ==
    /\ probe.op = "none"
    /\ probe' = [probe EXCEPT !.op = "resolveModelSource",
                              !.fileType = resolveModelSource(probe.source[1])]
    /\ UNCHANGED <<scene, cropCall>>
    /\ UNCHANGED lifeVars

NextType == CallGetModelFileType \/ CallResolveModelSource

SpecType == InitType /\ [][NextType]_vars

(***************************************************************************)
(* C24: getModelFileType(url) is glb, gltf or fbx iff the lower-cased url  *)
(* ends with exactly '.glb', '.gltf' or '.fbx', and unknown otherwise.     *)
(***************************************************************************)
\* C24 as stated: in particular any url with a query string after the
\* extension, with another extension or with none gives unknown
C24_ExactSuffix ==
    probe.op = "getModelFileType" =>
        probe.fileType = IF probe.source[1].hasQuery THEN "unknown"
                         ELSE probe.source[1].endsIn

\* C24 amended: the answer goes by the very end of the url alone, so a url
\* with a query string after the extension gives unknown unless the query
\* string itself ends in one of the three extensions
C24_SuffixOnly ==
    probe.op = "getModelFileType" =>
        probe.fileType = probe.source[1].nameSays

\* 'model.glb?version=1' gives unknown
C24_Witness ==
    /\ probe.op = "getModelFileType"
    /\ probe.source[1].hasQuery
    /\ probe.source[1].endsIn = "glb"
    /\ probe.source[1].nameSays = "unknown"
    /\ probe.fileType = "unknown"


(***************************************************************************)
(* C23: for a File, Blob or blob-URL source the detected format is chosen  *)
(* by first match, an earlier match never overridden by a later step:      *)
(* (1) the filename's extension; (2) the declared MIME type, unless it is  *)
(* one of the three generic types; (3) the content: 'glTF' at offset 0,    *)
(* 'Kaydara FBX Binary' at offset 0, or a first non-whitespace character   *)
(* '{'; (4) otherwise unknown.                                             *)
(***************************************************************************)
FirstMatch(src) ==
    IF src.nameSays # "unknown" THEN src.nameSays
    ELSE IF src.typeSays # "unknown" THEN src.typeSays
    ELSE src.contentSays

C23_FirstMatchWins ==
    (probe.op = "resolveModelSource" /\ probe.source[1].kind # "url") =>
        probe.fileType = FirstMatch(probe.source[1])

(***************************************************************************)
(* C25: every object URL created while resolving a File, Blob or blob-URL  *)
(* source is revoked when that load settles, on the success path and on    *)
(* every failure path: no settled load holds a created, unrevoked URL.     *)
(***************************************************************************)
C25_ObjectUrlRevoked ==
    \A l \in 1..Len(loads) :
       loads[l].pc = "settled" => loads[l].objectUrl # "created"

\* two blob: URL loads settled, one by the parser's onLoad and one by its
\* onError, each with its object URL revoked
C25_Witness ==
    \E l, m \in 1..Len(loads) :
       /\ loads[l].pc = "settled" /\ loads[l].parser = "resolved"
       /\ loads[l].objectUrl = "revoked"
       /\ loads[m].pc = "settled" /\ loads[m].parser = "rejected"
       /\ loads[m].objectUrl = "revoked"

(***************************************************************************)
(* C26: the visual settings do not affect crop or export semantics.        *)
(* Setting the crop-box visibility, the crop-box colour, the grid          *)
(* visibility or the view-helper visibility, on the engine or through the  *)
(* service, leaves the stored crop box, the stored transform, the loaded   *)
(* model's geometry, loadingState and cropIsValid unchanged, and so also   *)
(* the outcome of an applyCrop or an export that follows.                  *)
(***************************************************************************)
VisualOps ==
    {"toggleBoxVisibility", "setCropBoxColor", "toggleGridVisibility",
     "toggleViewHelperVisibility"}

\* what engine e holds for a crop and an export, and what each would give
EngineSemantics(e) ==
    [currentCropBox |-> e.currentCropBox,
     currentTransform |-> e.currentTransform,
     loadedModel |-> e.loadedModel,
     sceneModels |-> e.sceneModels,
     loadingState |-> e.loadingState,
     cropResult |-> Engine_applyCheapCrop(e, NoAttributes).result,
     cropped |-> Engine_applyCheapCrop(e, NoAttributes).engine.loadedModel,
     exported |-> Engine_exportToGlb(e, TRUE).exported,
     exportedModel |-> Engine_exportToGlb(e, TRUE).engine.loadedModel]

Semantics(s, es) ==
    [engine |-> s.engine, cropBox |-> s.cropBox,
     meshTransform |-> s.meshTransform, loadingState |-> s.loadingState,
     cropIsValid |-> s.cropIsValid, canExport |-> canExport(s),
     lastCropResult |-> s.lastCropResult,
     engines |-> [n \in DOMAIN es |-> EngineSemantics(es[n])]]

C26_VisualSetsPreserve ==
    [][(hist'.op \in VisualOps /\ hist'.steps = hist.steps + 1) =>
          Semantics(svc', engines') = Semantics(svc, engines)]_vars

\* a model was loaded and cropped; then the colour was changed and the grid
\* shown, and the crop is still valid
C26_Witness ==
    /\ hist.op = "toggleGridVisibility"
    /\ hist.visualSets = 2
    /\ svc.engine # 0
    /\ engines[svc.engine].visual.gridHelper
    /\ engines[svc.engine].visual.cropBoxMesh # Null
    /\ engines[svc.engine].visual.cropBoxMesh[1].color # DefaultColor
    /\ engines[svc.engine].loadedModel.id # 0
    /\ svc.cropIsValid
    /\ svc.lastCropResult # Null
    /\ svc.lastCropResult[1].success
    /\ svc.lastCropResult[1].trianglesKept > 0

(***************************************************************************)
(* C27: an operation invoked on the service while it holds no engine       *)
(* (before initViewport, or after dispose) rejects or throws: loadModel,   *)
(* exportGlb, applyCrop, updateCropBox, updateTransform and the other      *)
(* mutators never return as if nothing were wrong.                         *)
(***************************************************************************)
ServiceOps ==
    {"loadModel", "onDownload", "applyCrop", "updateCropBox",
     "updateCropBoxValue", "updateTransform", "updatePosition",
     "updateRotation", "resetTransform", "resetCropBox"}

C28_AttachedNeverDisposed ==
    cropCall.done =>
        \A i \in 1..Len(scene.root) :
           scene.root[i].geometry.gid # 0 =>
              scene.root[i].geometry.gid \notin scene.disposed

(***************************************************************************)
(* C29: at every moment at most one loaded model is attached to an         *)
(* engine's scene, and every model that was installed and then replaced by *)
(* a later load has been removed from the scene and disposed, also when    *)
(* two loadModel calls overlap and both parsers succeed.                   *)
(***************************************************************************)
\* the models installed in engine n that are no longer its loadedModel
Replaced(n) ==
    { l \in 1..Len(loads) :
         /\ loads[l].engine = n
         /\ loads[l].parser = "resolved"
         /\ engines[n].loadedModel.id # l }

C29_OneModelInScene ==
    \A n \in 1..Len(engines) :
       /\ Cardinality(engines[n].sceneModels) <= 1
       /\ \A l \in Replaced(n) :
             l \notin engines[n].sceneModels /\ l \in engines[n].disposedModels

(***************************************************************************)
(* C30: immediately after every successful load the engine's crop box      *)
(* contains every world-space vertex of the model as it is then            *)
(* positioned, so an applyCheapCrop issued with nothing changed in between *)
(* removes 0 triangles, whatever transform was stored before the load and  *)
(* wherever the parser delivered the root.                                 *)
(***************************************************************************)
C30_FittedBoxContainsModel ==
    hist.op = "parserResolved" =>
        LET e == engines[loads[hist.load].engine]
        IN  /\ \A p \in WorldPoints(updateMatrixWorld(e.loadedModel.tree)) :
                  isPointInCropBox(p.x, p.y, p.z, e.currentCropBox)
            /\ Engine_applyCheapCrop(e, NoAttributes).result.trianglesRemoved = 0

(***************************************************************************)
(* C31: after ModelCropperService.dispose(), which disposes the engine, a  *)
(* load that was still in flight has no effect when it later resolves: no  *)
(* model is installed in the disposed engine, the service's loadingState   *)
(* stays idle, and canApplyCrop and canExport stay false.                  *)
(***************************************************************************)
C31_DisposedLoadHasNoEffect ==
    (/\ hist.op = "parserResolved"
     /\ svc.engine = 0
     /\ engines[loads[hist.load].engine].isDisposed) =>
        /\ engines[loads[hist.load].engine].loadedModel.id = 0
        /\ svc.loadingState = "idle"
        /\ ~canApplyCrop(svc)
        /\ ~canExport(svc)

(***************************************************************************)
(* C32: whenever the loadingState of an engine (not disposed) is loaded, a *)
(* model is installed, so that in state loaded applyCheapCrop never        *)
(* returns success = false and exportToGlb never rejects with 'No model    *)
(* loaded to export', under any interleaving of loadModel calls.           *)
(***************************************************************************)
C32_LoadedHasModel ==
    \A n \in 1..Len(engines) :
       (~engines[n].isDisposed /\ engines[n].loadingState = "loaded") =>
          /\ engines[n].loadedModel.id # 0
          /\ Engine_applyCheapCrop(engines[n], NoAttributes).result.success
          /\ Engine_exportToGlb(engines[n], TRUE).exported

(***************************************************************************)
(* C33: after a load whose parser rejects, no partially-installed model is *)
(* left: the engine's loadedModel is null and the scene contains no model; *)
(* the model loaded before the failed load, if any, has been removed from  *)
(* the scene and disposed.                                                 *)
(***************************************************************************)
C33_NothingLeftAfterRejection ==
    hist.op = "parserRejected" =>
        LET e == engines[loads[hist.load].engine]
        IN  /\ e.loadedModel.id = 0
            /\ e.sceneModels = {}
            /\ \A l \in 1..(hist.load - 1) :
                  (loads[l].engine = loads[hist.load].engine
                     /\ loads[l].parser = "resolved") =>
                        l \in e.disposedModels

(***************************************************************************)
(* C34: applyCheapCrop evaluates the triangles with the transform most     *)
(* recently set by setMeshTransform.  It refreshes the model's world       *)
(* transforms before the cropper runs, so the triangles that survive a     *)
(* crop are those that pass the keep rule where the stored transform puts  *)
(* them, never where an older transform had put them.                      *)
(***************************************************************************)
C34_CropUsesStoredTransform ==
    [][(hist'.op = "applyCrop" /\ hist'.ok /\ hist'.steps = hist.steps + 1) =>
         LET e == engines[svc.engine]
             placed == setRootTransform(e.loadedModel.tree, e.currentTransform)
         IN  \A i \in Processed(e.loadedModel.tree) :
                TrianglesOf(engines'[svc.engine].loadedModel.tree[i].geometry) =
                   Survivors(TrianglesOf(e.loadedModel.tree[i].geometry),
                             WorldTriangles(placed, i), "centroid",
                             e.currentCropBox)]_vars

\* a crop, after the model was moved out of the box fitted at its load, has
\* removed the triangles that were in the box before the move
C34_Witness ==
    /\ hist.op = "applyCrop"
    /\ hist.ok
    /\ engines[svc.engine].currentTransform.position.x > 0
    /\ svc.lastCropResult[1].trianglesRemoved > 0
    /\ svc.lastCropResult[1].trianglesKept = 0

(***************************************************************************)
(* C35: a transform stored while no model is loaded is pending and is      *)
(* applied when a model loads.  After every successful load, and after     *)
(* every setMeshTransform with a model loaded, the position and rotation   *)
(* of the model root equal the stored transform.                           *)
(***************************************************************************)
RootAsStored(e) ==
    /\ e.loadedModel.tree[1].position = e.currentTransform.position
    /\ e.loadedModel.tree[1].rotation = e.currentTransform.rotation

TransformOps ==
    {"updateTransform", "updatePosition", "updateRotation", "resetTransform"}

C36_NewViewportStartsUnloaded ==
    hist.op = "initViewport" =>
        /\ svc.loadingState # "loaded"
        /\ ~canApplyCrop(svc)
        /\ ~canExport(svc)

(***************************************************************************)
(* SpecRagged: CheapCropper.applyCrop on geometries whose index count or   *)
(* vertex count need not be a multiple of three                            *)
(***************************************************************************)
\* the geometry cut off after its first n indices (indexed) or its first n
\* vertices (non-indexed)
CutOff(g, n) ==
    IF g.indexed THEN [g EXCEPT !.index = slice(g.index, n)]
    ELSE [g EXCEPT !.attributes =
            [a \in DOMAIN g.attributes |->
               BufferAttribute(slice(g.attributes[a].array,
                                     n * g.attributes[a].itemSize),
                               g.attributes[a].itemSize)]]

RaggedGeometries == { CutOff(g, n) : g \in Geometries, n \in 0..(3 * MaxTris) }

RaggedTrees(g) ==
    { SceneTree("mesh", pl, g) : pl \in NoChildMove } \cup
    { SceneTree("group-mesh-mesh", pl, g) :
         pl \in { q \in Placements : q.rootScale = 1 /\ q.rootPos.x = 0 } }

InitRagged ==
    /\ probe = ProbeIdle
    /\ \E g \in RaggedGeometries : \E tree \in RaggedTrees(g) :
          scene = [root |-> updateMatrixWorld(tree),
                   nextGid |-> 3, disposed |-> {}]
    /\ cropCall = CropCallIdle
    /\ LifeIdle

NextRagged == CallApplyCrop

SpecRagged == InitRagged /\ [][NextRagged]_vars

(***************************************************************************)
(* C37: for every applyCrop call and every processed geometry, whatever    *)
(* its index count or vertex count, trianglesKept and trianglesRemoved are *)
(* non-negative integers and their sum is the number of triangles the      *)
(* geometry had before the call (index count / 3 if indexed, else vertex   *)
(* count / 3); the totals in the CropResult are the sums over the          *)
(* processed meshes.  Stated on the totals: they are whole, not negative,  *)
(* and three times their sum is the sum of the index or vertex counts of   *)
(* the processed meshes.                                                   *)
(***************************************************************************)
\* the index count of an indexed geometry, else its vertex count
CornerCount(g) ==
    IF g.indexed THEN Len(g.index) ELSE Len(g.attributes["position"].array) \div 3

TotalCorners(tree) ==
    SumOver(Processed(tree), [i \in Processed(tree) |-> CornerCount(tree[i].geometry)])

C37_CountsWholeAndNonNegative ==
    cropCall.done =>
        /\ IsWhole(cropCall.result.trianglesKept)
        /\ IsWhole(cropCall.result.trianglesRemoved)
        /\ InThirds(cropCall.result.trianglesKept) >= 0
        /\ InThirds(cropCall.result.trianglesRemoved) >= 0
        /\ InThirds(cropCall.result.trianglesKept)
             + InThirds(cropCall.result.trianglesRemoved)
              = TotalCorners(cropCall.before)

(***************************************************************************)
(* C38: cropping never creates geometry: over any sequence of              *)
(* updateCropBox, setMeshTransform and applyCheapCrop calls on one loaded  *)
(* model, each mesh's triangle count never increases, every triangle       *)
(* present after a crop was present (with the same vertex positions)       *)
(* before it, and a triangle removed by one crop is not restored by a      *)
(* later crop with a larger box.  Stated of one crop: each processed mesh  *)
(* has at most as many index entries (vertices if not indexed) after the   *)
(* call as before, and its triangles after the call are triangles it had   *)
(* before, in the same order.                                              *)
(***************************************************************************)
\* a can be obtained from b by leaving elements out
RECURSIVE IsSubsequence(_, _)
IsSubsequence(a, b) ==
    IF a = <<>> THEN TRUE
    ELSE IF b = <<>> THEN FALSE
    ELSE IF Head(a) = Head(b) THEN IsSubsequence(Tail(a), Tail(b))
    ELSE IsSubsequence(a, Tail(b))

NothingCreated(before, after) ==
    \A i \in Processed(before) :
        /\ CornerCount(after[i].geometry) <= CornerCount(before[i].geometry)
        /\ IsSubsequence(TrianglesOf(after[i].geometry),
                         TrianglesOf(before[i].geometry))

C38_CropCreatesNothing ==
    cropCall.done => NothingCreated(cropCall.before, scene.root)

(***************************************************************************)
(* SpecRebuild: CheapCropper.buildNewGeometry on a geometry and the vertex *)
(* references of the triangles kept from it                                *)
(***************************************************************************)
\* the triangle lists of the geometries that are rebuilt
RebuildLists == UNION { [1..n -> TriPool] : n \in 1..(MaxTris + 1) }

RebuildGeometries ==
    { WithUv(IndexedGeometry(1, t)) : t \in RebuildLists } \cup
    { WithUv(NonIndexedGeometry(1, t)) : t \in RebuildLists }

\* the vertex references of triangle t (1-based) of g, as the triangle loop
\* of cropGeometry pushes them
ReferencesOf(g, t) ==
    IF g.indexed
    THEN << g.index[3 * t - 2], g.index[3 * t - 1], g.index[3 * t] >>
    ELSE << 3 * (t - 1), 3 * (t - 1) + 1, 3 * (t - 1) + 2 >>

\* the kept references when exactly the triangles in S pass the test
KeptReferences(g, S) ==
    LET n == IF g.indexed THEN Len(g.index) \div 3
             ELSE AttrCount(g.attributes["position"]) \div 3
        InS(t) == t \in S
        chosen == SelectSeq([t \in 1..n |-> t], InS)
    IN  Flatten([m \in 1..Len(chosen) |-> ReferencesOf(g, chosen[m])])

\* buildNewGeometry is called only when a triangle was removed
RebuildInputs ==
    { [geometry |-> g, kept |-> KeptReferences(g, S)] :
         <<g, S>> \in { gs \in RebuildGeometries \X SUBSET (1..(MaxTris + 1)) :
                           LET n == IF gs[1].indexed THEN Len(gs[1].index) \div 3
                                    ELSE AttrCount(gs[1].attributes["position"]) \div 3
                           IN  gs[2] \subseteq 1..n /\ gs[2] # 1..n } }

InitRebuild ==
    /\ \E in \in RebuildInputs : probe = [ProbeIdle EXCEPT !.source = Some(in)]
    /\ scene = SceneIdle
    /\ cropCall = CropCallIdle
    /\ LifeIdle

CallBuildNewGeometry ==
    /\ probe.op = "none"
    /\ probe' = [probe EXCEPT
                   !.op = "buildNewGeometry",
                   !.result = buildNewGeometry(probe.source[1].geometry,
                                               probe.source[1].kept,
                                               probe.source[1].geometry.indexed, 2)]
    /\ UNCHANGED <<scene, cropCall>>
    /\ UNCHANGED lifeVars

NextRebuild == CallBuildNewGeometry

SpecRebuild == InitRebuild /\ [][NextRebuild]_vars

(***************************************************************************)
(* C39: rebuilding an indexed geometry maps the old vertex indices         *)
(* referenced by kept triangles to new indices 0..k-1 in first-encounter   *)
(* order, where k is the number of distinct referenced old indices; the    *)
(* new index buffer lists the kept triangles in their original order with  *)
(* each index remapped, every new index is < k, and for every attribute    *)
(* channel the value at new vertex j equals the old value at the old index *)
(* mapped to j.                                                            *)
(***************************************************************************)
\* how many distinct values the sequence has
Distinct(refs) == Cardinality({ refs[n] : n \in 1..Len(refs) })

\* the new index of the n-th reference: the number of distinct references
\* met before its value is met for the first time
FirstAt(refs, n) == CHOOSE m \in 1..n : refs[m] = refs[n] /\ \A j \in 1..(m - 1) : refs[j] # refs[n]

FirstEncounter(refs, n) == Distinct(SubSeq(refs, 1, FirstAt(refs, n) - 1))

\* item c (1-based) of the value of channel attr at vertex v (0-based)
ValueAt(attr, v, c) == attr.array[v * attr.itemSize + c]

C39_IndexedRebuild ==
    (probe.op = "buildNewGeometry" /\ probe.source[1].geometry.indexed) =>
        LET g == probe.source[1].geometry
            refs == probe.source[1].kept
            h == probe.result
            k == Distinct(refs)
        IN  /\ h.indexed
            /\ Len(h.index) = Len(refs)
            /\ \A n \in 1..Len(refs) :
                  /\ h.index[n] = FirstEncounter(refs, n)
                  /\ h.index[n] >= 0 /\ h.index[n] < k
            /\ DOMAIN h.attributes = DOMAIN g.attributes
            /\ \A a \in DOMAIN g.attributes :
                  /\ h.attributes[a].itemSize = g.attributes[a].itemSize
                  /\ Len(h.attributes[a].array) = k * g.attributes[a].itemSize
                  /\ \A n \in 1..Len(refs) : \A c \in 1..g.attributes[a].itemSize :
                        ValueAt(h.attributes[a], h.index[n], c)
                           = ValueAt(g.attributes[a], refs[n], c)

\* an indexed geometry with a uv channel rebuilt from two kept triangles
\* that share a vertex, the first reference not being the lowest old index
C39_Witness ==
    /\ probe.op = "buildNewGeometry"
    /\ probe.source[1].geometry.indexed
    /\ Len(probe.source[1].kept) = 6
    /\ Distinct(probe.source[1].kept) < 6
    /\ \E n \in 2..6 : probe.source[1].kept[n] < probe.source[1].kept[1]
    /\ "uv" \in DOMAIN probe.result.attributes
    /\ Distinct(probe.source[1].kept)
          < AttrCount(probe.source[1].geometry.attributes["position"])

(***************************************************************************)
(* C40: rebuilding a non-indexed geometry takes the kept triangles' vertex *)
(* references, three per triangle in original order, and copies every      *)
(* attribute channel's values in that order into new flat buffers: the     *)
(* result has exactly 3 x trianglesKept vertices, vertex n of the result   *)
(* equals the n-th kept vertex reference of the input, and no index buffer *)
(* is produced.                                                            *)
(***************************************************************************)
C40_NonIndexedRebuild ==
    (probe.op = "buildNewGeometry" /\ ~probe.source[1].geometry.indexed) =>
        LET g == probe.source[1].geometry
            refs == probe.source[1].kept
            h == probe.result
        IN  /\ ~h.indexed
            /\ h.index = <<>>
            /\ AttrCount(h.attributes["position"]) = 3 * (Len(refs) \div 3)
            /\ DOMAIN h.attributes = DOMAIN g.attributes
            /\ \A a \in DOMAIN g.attributes :
                  /\ h.attributes[a].itemSize = g.attributes[a].itemSize
                  /\ Len(h.attributes[a].array) = Len(refs) * g.attributes[a].itemSize
                  /\ \A n \in 1..Len(refs) : \A c \in 1..g.attributes[a].itemSize :
                        ValueAt(h.attributes[a], n - 1, c)
                           = ValueAt(g.attributes[a], refs[n], c)

\* a non-indexed geometry with a uv channel that keeps its second and third
\* triangle, which differ, and loses its first
C40_Witness ==
    /\ probe.op = "buildNewGeometry"
    /\ ~probe.source[1].geometry.indexed
    /\ probe.source[1].kept = <<3, 4, 5, 6, 7, 8>>
    /\ "uv" \in DOMAIN probe.result.attributes
    /\ SubSeq(probe.result.attributes["position"].array, 1, 9)
          # SubSeq(probe.result.attributes["position"].array, 10, 18)

====
